---- MODULE Spec2Model ----
(***************************************************************************)
(* Slack socket mode session supervisor (pkg/apis/slack/socket_mode.go)    *)
(* running over the RFC 6455 connection of the same package, and the       *)
(* retrying HTTP layer (pkg/transport/client.go).                          *)
(*                                                                         *)
(* Strings are sequences of one-character strings so that                  *)
(* strings.TrimSpace is computed, not assumed.  Durations are counted in   *)
(* seconds, those of the HTTP layer in milliseconds.                       *)
(***************************************************************************)
EXTENDS Integers, Sequences, FiniteSets, TLC

\* ---------------------------------------------------------------- bounds
MaxDials == 2       \* Dial calls in one run
MaxEvents == 2      \* envelopes read in one run
MaxBuffered == 1    \* complete messages one socket read leaves in the bufio buffer
MaxFragments == 5   \* frames the peer splits one message into
MaxInFlight == 2    \* frames sent to a websocketConn and not yet consumed
MaxCalls == 4       \* calls of WriteJSON, writeFrame and Close on one websocketConn
MaxRetries == 3     \* largest RetryConfig.MaxAttempts a transport.Client is built with
MaxStart == 2       \* latest second at which a handshake starts
MaxSlack == 3       \* seconds a context deadline can lie beyond the handshake timeout

\* ------------------------------------------------------------- constants
defaultSocketModeReconnectDelay == 1

\* a nil *url.URL
NIL == [kind |-> "nil", scheme |-> "", host |-> ""]

\* ---------------------------------------------------------------- strings
IsSpace(ch) == ch \in {" ", "\t"}

RECURSIVE TrimLeft(_)
TrimLeft(s) ==
    IF s = <<>> THEN s
    ELSE IF IsSpace(Head(s)) THEN TrimLeft(Tail(s)) ELSE s

RECURSIVE TrimRight(_)
TrimRight(s) ==
    IF s = <<>> THEN s
    ELSE IF IsSpace(s[Len(s)]) THEN TrimRight(SubSeq(s, 1, Len(s) - 1)) ELSE s

\* strings.TrimSpace
TrimSpace(s) == TrimRight(TrimLeft(s))

Min(a, b) == IF a < b THEN a ELSE b

\* ----------------------------------------------------------------- errors
\* A control-plane response body: unreadable, empty, not JSON, or a JSON
\* object with its "ok", "error" and "url" members.
Body(form, ok, error, url) == [form |-> form, ok |-> ok, error |-> error, url |-> url]
NoBody == Body("none", "absent", <<>>, <<>>)

\* An error value: its type, its text, what errors.Is finds in its chain,
\* and the fields of slack.Error and transport.APIError.
Err(kind, msg) ==
    [kind |-> kind, msg |-> msg, is |-> "", code |-> <<>>, status |-> 0, body |-> NoBody]
NoErr == Err("nil", "")
ErrCanceled == [Err("context", "context canceled") EXCEPT !.is = "context.Canceled"]
ErrDeadlineExceeded ==
    [Err("context", "context deadline exceeded") EXCEPT !.is = "context.DeadlineExceeded"]

\* errors.Is(err, context.Canceled) || errors.Is(err, context.DeadlineExceeded)
IsCancellation(e) == e.is \in {"context.Canceled", "context.DeadlineExceeded"}

\* What transport.Do and the reading of the body give one control-plane
\* call: an error of Do, or a response.
Reply(doErr, status, body) == [doErr |-> doErr, status |-> status, body |-> body]

NoReply == Reply(NoErr, 0, NoBody)

\* ctx.Err()
CtxErr(c) ==
    CASE c = "canceled" -> ErrCanceled
      [] c = "deadline" -> ErrDeadlineExceeded
      [] OTHER -> NoErr

\* ------------------------------------------------------ client construction
Tokens == {<<>>, <<" ">>, <<"x">>, <<" ", "x">>}

\* What url.Parse makes of the configured base URL.
BaseURLs ==
    { [parseErr |-> TRUE, scheme |-> "", host |-> ""],
      [parseErr |-> FALSE, scheme |-> "", host |-> "slack.com"],
      [parseErr |-> FALSE, scheme |-> "https", host |-> ""],
      [parseErr |-> FALSE, scheme |-> "https", host |-> "slack.com"] }

Delays == {-1, 0, 1}

\* The options handed to NewSocketModeClient; transport and dialer say
\* whether a non-nil value was supplied.
Options ==
    [appToken : Tokens, baseURL : BaseURLs, transport : BOOLEAN,
     dialer : BOOLEAN, reconnectDelay : Delays]

NewSocketModeClient(o) ==
    [appToken |-> TrimSpace(o.appToken),
     baseURL |-> IF o.baseURL.parseErr \/ o.baseURL.scheme = "" \/ o.baseURL.host = ""
                 THEN NIL
                 ELSE [kind |-> "url", scheme |-> o.baseURL.scheme, host |-> o.baseURL.host],
     transport |-> TRUE,
     dialer |-> TRUE,
     reconnectDelay |-> IF o.reconnectDelay < 0
                        THEN defaultSocketModeReconnectDelay
                        ELSE o.reconnectDelay]

ValidURL == [kind |-> "url", scheme |-> "https", host |-> "slack.com"]

\* SocketModeClient values written as struct literals, bypassing the
\* constructor (the zero value among them).
StructLiterals ==
    { [appToken |-> <<>>, baseURL |-> NIL, transport |-> FALSE, dialer |-> FALSE,
       reconnectDelay |-> 0],
      [appToken |-> <<" ">>, baseURL |-> ValidURL, transport |-> TRUE, dialer |-> TRUE,
       reconnectDelay |-> 0],
      [appToken |-> <<"x">>, baseURL |-> ValidURL, transport |-> FALSE, dialer |-> TRUE,
       reconnectDelay |-> 0],
      [appToken |-> <<"x">>, baseURL |-> ValidURL, transport |-> TRUE, dialer |-> FALSE,
       reconnectDelay |-> 0] }

Clients == { NewSocketModeClient(o) : o \in Options } \cup StructLiterals

\* ------------------------------------------------------------------ state
VARIABLES
    client,     \* the SocketModeClient RunWithHandler is called on
    handler,    \* TRUE iff the handler argument is non-nil
    ctx,        \* "nil", "live", "canceled" or "deadline"
    pc,         \* position of the RunWithHandler goroutine
    retErr,     \* value returned by RunWithHandler (NoErr while running)
    err,        \* err of processConnection in the running iteration
    socketURL,  \* socketURL of the running iteration of RunWithHandler
    reply,      \* what the transport gave the last openConnection
    cpCalls,    \* control-plane calls made so far
    dialURLs,   \* URL of every Dial call, in order
    waits,      \* waitReconnect calls made so far
    conns,      \* every connection Dial returned
    buffered,   \* complete messages in the bufio buffer of the current connection
    reads,      \* envelopes ReadJSON has delivered so far
    event,      \* the SocketModeEvent last read in this processConnection
    handled,    \* what HandleEvent returned for it ("no": not called)
    response,   \* response in processConnection: "nil" or "resp"
    acked,      \* what became of its Acknowledgement
    writes,     \* the Acknowledgements written on the connection being processed
    dispatched, \* the envelopes HandleEvent was called with, by number of read
    timers      \* the duration of every timer waitReconnect made, in order

\* buildClientFrame and readFrame, one frame from the arguments to the
\* values decoded
VARIABLES
    call,       \* opcode and payload given to buildClientFrame, the mask rand.Read yields
    frame,      \* the bytes buildClientFrame returned: their number, the first of them
    reader,     \* the bytes that follow the frame in the reader readFrame is called on
    decoded,    \* what readFrame returned, the payload by its length and its comparison
    fpc         \* "idle", "build", "feed", "read" or "done"

\* readMessage on one websocketConn, its peer and the goroutine that closes it
VARIABLES
    socket,     \* bytes the peer has sent that no Read of the net.Conn has fetched
    bufio,      \* bytes in c.reader, fetched and not yet consumed
    netConn,    \* TRUE while c.conn is not nil
    wire,       \* bytes written to the net.Conn that the peer has not yet taken
    buffer,     \* buffer of the running readMessage
    expectContinuation,
    rpc,        \* "idle", "read", "returned" or "failed"
    message,    \* the message readMessage returned last
    readErr,    \* the error readMessage returned ("" for none)
    inflight,   \* the frames sent and not yet consumed, as the peer made them
    sending,    \* the message the peer is sending: the payloads so far, their number
    sent,       \* the messages the peer has completed and readMessage has not returned
    expected    \* the message of the peer that stands against the one returned last

\* goroutines calling WriteJSON, writeFrame and Close of one websocketConn
VARIABLES
    writeMu,    \* the goroutine that holds c.writeMu, 0 for none
    tasks,      \* every goroutine: where it is in its call, what it writes, what it got
    sockCloses, \* calls of Close on the net.Conn
    started     \* calls made so far

\* one call of transport.Client.Do
VARIABLES
    retry,      \* c.retry
    req,        \* the request: whether it has a Body, a GetBody, or is nil
    reqCtx,     \* req.Context(): "live", "canceled" or "deadline"
    attempts,   \* attempts in Do
    attempt,    \* attempt in Do
    lastErr,    \* lastErr in Do
    dpc,        \* where Do is: "idle", "call", "attempt", "sleep", "done"
    tried,      \* what c.httpClient.Do gave, call by call
    delay,      \* the duration handed to sleepWithContext last
    doRet       \* what Do returned

\* one call of websocketClientHandshake
VARIABLES
    now,         \* the clock, in seconds
    hsStart,     \* time.Now() at the start of the handshake
    ctxDeadline, \* ctx.Deadline(): ok and the deadline d
    deadline,    \* the deadline set on the net.Conn, if one is set
    hpc          \* "idle", "start", "handshake", "upgraded", "failed"

\* the variables of RunWithHandler
supVars == <<client, handler, ctx, pc, retErr, err, socketURL, reply, cpCalls, dialURLs,
             waits, conns, buffered, reads, event, handled, response, acked, writes,
             dispatched, timers>>

frameVars == <<call, frame, reader, decoded, fpc>>

readVars == <<socket, bufio, netConn, wire, buffer, expectContinuation, rpc, message,
              readErr, inflight, sending, sent, expected>>

\* readVars without c.conn and the bytes written
readerVars == <<socket, bufio, buffer, expectContinuation, rpc, message, readErr, inflight,
                sending, sent, expected>>

lockVars == <<writeMu, tasks, sockCloses, started>>

doVars == <<retry, req, reqCtx, attempts, attempt, lastErr, dpc, tried, delay, doRet>>

hsVars == <<now, hsStart, ctxDeadline, deadline, hpc>>

\* the variables below RunWithHandler
layers == <<frameVars, readVars, lockVars, doVars, hsVars>>

vars == <<supVars, layers>>

\* ----------------------------------------------------------------- frames
\* Bytes are the integers 0 .. 255, byte slices sequences of them.
maxWebSocketFrameSize == 33554432

wsOpcodeContinuation == 0
wsOpcodeText == 1
wsOpcodeBinary == 2
wsOpcodeClose == 8
wsOpcodePing == 9
wsOpcodePong == 10

\* a ^ b on bytes
RECURSIVE Xor(_, _)
Xor(a, b) ==
    IF a = 0 THEN b
    ELSE IF b = 0 THEN a
    ELSE (((a % 2) + (b % 2)) % 2) + 2 * Xor(a \div 2, b \div 2)

XorTable == [a \in 0 .. 255 |-> [b \in 0 .. 255 |-> Xor(a, b)]]

\* payload[i] ^ mask[i%4] for every i, the loop of buildClientFrame and of
\* readFrame (i counts from 0 there, from 1 here)
ApplyMask(p, mask) ==
    <<>> \o [i \in 1 .. Len(p) |-> XorTable[p[i]][mask[((i - 1) % 4) + 1]]]

\* 0x80 | b
Or80(b) == IF b >= 128 THEN b ELSE b + 128

\* binary.BigEndian.PutUint16
PutUint16(n) == <<(n \div 256) % 256, n % 256>>

\* binary.BigEndian.PutUint64, of a length below 2^31
PutUint64(n) ==
    <<0, 0, 0, 0, (n \div 16777216) % 256, (n \div 65536) % 256, (n \div 256) % 256, n % 256>>

\* The length bytes written without the 8-byte form.
LengthBytesNoUint64(n) ==
    IF n < 126 THEN <<Or80(n)>>
    ELSE <<Or80(126)>> \o PutUint16(n % 65536)

\* buildClientFrame, the length byte and the extended length
LengthBytes(n) ==
    IF n < 126 THEN <<Or80(n)>>
    ELSE IF n <= 65535 THEN <<Or80(126)>> \o PutUint16(n)
    ELSE <<Or80(127)>> \o PutUint64(n)

\* buildClientFrame, the bytes written before the masked payload of
\* payloadLen bytes
frameHeader(opcode, payloadLen, mask) ==
    <<Or80(opcode)>> \o LengthBytes(payloadLen) \o mask

\* buildClientFrame, with mask the four bytes rand.Read yields
buildClientFrame(opcode, payload, mask) ==
    frameHeader(opcode, Len(payload), mask) \o ApplyMask(payload, mask)

\* What readFrame returns: err is "" for nil; n counts the bytes consumed
\* from the reader.
Frame(opcode, fin, payload, e, n) ==
    [opcode |-> opcode, fin |-> fin, payload |-> payload, err |-> e, n |-> n]

\* io.ReadFull ran out of bytes: it blocks on an open connection and fails
\* on a closed one
Short == Frame(0, FALSE, <<>>, "short", 0)

\* readPayloadLength: the length and the number of bytes it read, from the
\* bytes s that follow the two header bytes.  A 64-bit length at or above
\* 2^31 is reported as 2^31 - 1, which is over maxWebSocketFrameSize as well.
readPayloadLength(base, s) ==
    IF base = 126
    THEN IF Len(s) < 2 THEN [err |-> "short", len |-> 0, n |-> 0]
         ELSE [err |-> "", len |-> s[1] * 256 + s[2], n |-> 2]
    ELSE IF base = 127
    THEN IF Len(s) < 8 THEN [err |-> "short", len |-> 0, n |-> 0]
         ELSE IF s[1] >= 128
         THEN [err |-> "slack: websocket payload length overflow", len |-> 0, n |-> 8]
         ELSE IF s[1] # 0 \/ s[2] # 0 \/ s[3] # 0 \/ s[4] # 0 \/ s[5] >= 128
         THEN [err |-> "", len |-> 2147483647, n |-> 8]
         ELSE [err |-> "",
               len |-> s[5] * 16777216 + s[6] * 65536 + s[7] * 256 + s[8],
               n |-> 8]
    ELSE [err |-> "", len |-> base, n |-> 0]

\* readFrame, the check of the payload length
tooLarge(payloadLen) == payloadLen > maxWebSocketFrameSize

\* readFrame on the bytes s the reader can deliver
readFrame(s) ==
    IF Len(s) < 2 THEN Short
    ELSE
    LET fin == s[1] >= 128
        opcode == s[1] % 16
        maskBit == s[2] >= 128
        pl == readPayloadLength(s[2] % 128, SubSeq(s, 3, Min(Len(s), 10)))
        at == 2 + pl.n
        maskLen == IF maskBit THEN 4 ELSE 0
        end == at + maskLen + pl.len
    IN  IF pl.err # "" THEN Frame(0, FALSE, <<>>, pl.err, at)
        ELSE IF tooLarge(pl.len)
        THEN Frame(0, FALSE, <<>>, "slack: websocket frame too large", at)
        ELSE IF Len(s) < end THEN Short
        ELSE LET raw == SubSeq(s, at + maskLen + 1, end)
             IN  Frame(opcode, fin,
                       IF maskBit THEN ApplyMask(raw, SubSeq(s, at + 1, at + 4)) ELSE raw,
                       "", end)

\* The opcodes of RFC 6455: four bits.
Opcodes == 0 .. 15

\* The payload of n bytes that starts with byte b and counts up.
Payload(n, b) == <<>> \o [i \in 1 .. n |-> (b + i - 1) % 256]

PayloadLens == {0, 1, 125, 126, 65535, 65536}

Masks == { <<0, 0, 0, 0>>, <<255, 1, 128, 77>> }

\* The bytes that follow the frame in the reader: none, or the start of
\* the next frame.
Tails == { <<>>, <<129, 1>> }

\* A call of buildClientFrame: the payload is Payload(len, first).
Calls == [opcode : Opcodes, len : PayloadLens, first : {250}, mask : Masks]

NoCall == [opcode |-> 0, len |-> 0, first |-> 0, mask |-> <<>>]

\* A byte slice by its length and its first bytes, up to the end of the
\* longest frame header.
Summary(b) == [len |-> Len(b), head |-> SubSeq(b, 1, Min(Len(b), 14))]

\* The result of readFrame with the payload replaced by its length and by
\* whether it is the byte slice p; rest is what the reader still holds.
Digest(f, p, s) ==
    [opcode |-> f.opcode, fin |-> f.fin, err |-> f.err, n |-> f.n,
     len |-> Len(f.payload), same |-> f.payload = p,
     rest |-> SubSeq(s, f.n + 1, Len(s))]

NoDigest == Digest(Short, <<>>, <<>>)

NoMessage == [bytes |-> <<>>, n |-> 0]

ReaderIdle ==
    /\ socket = <<>>
    /\ bufio = <<>>
    /\ buffer = <<>>
    /\ expectContinuation = FALSE
    /\ rpc = "idle"
    /\ message = <<>>
    /\ readErr = ""
    /\ inflight = <<>>
    /\ sending = NoMessage
    /\ sent = <<>>
    /\ expected = NoMessage

ReadIdle == ReaderIdle /\ netConn = FALSE /\ wire = <<>>

\* The goroutines that use one connection: the one of RunWithHandler, the
\* watcher of processConnection, one more caller of the exported methods.
Goroutines == 1 .. 3

\* A goroutine outside any call: ret is what its last call returned,
\* frame is what it writes, at the bytes of it written, n its Close calls so far.
Idle(ret, n) == [pc |-> "idle", frame |-> <<>>, at |-> 0, ret |-> ret, n |-> n]

LockIdle ==
    /\ writeMu = 0
    /\ tasks = [t \in Goroutines |-> Idle("", 0)]
    /\ sockCloses = 0
    /\ started = 0

FrameIdle ==
    /\ call = NoCall
    /\ frame = Summary(<<>>)
    /\ reader = <<>>
    /\ decoded = NoDigest
    /\ fpc = "idle"

\* The zero time.Time, and ctx.Deadline() of a context without deadline.
NoTime == [ok |-> FALSE, d |-> 0]

Time(t) == [ok |-> TRUE, d |-> t]

\* No handshake is running.
HandshakeIdle ==
    /\ now = 0
    /\ hsStart = 0
    /\ ctxDeadline = NoTime
    /\ deadline = NoTime
    /\ hpc = "idle"

\* The zero RetryConfig.
NoRetry == [MaxAttempts |-> 0, InitialBackoff |-> 0, MaxBackoff |-> 0, Jitter |-> 0]

\* A nil *http.Request.
NilRequest == [nil |-> TRUE, Body |-> FALSE, GetBody |-> FALSE]

\* What Do returns: resp is the status of the response, 0 for a nil one.
Returned(resp, e) == [resp |-> resp, err |-> e]

\* No call of Do is running.
DoIdle ==
    /\ retry = NoRetry
    /\ req = NilRequest
    /\ reqCtx = "live"
    /\ attempts = 0
    /\ attempt = 0
    /\ lastErr = ""
    /\ dpc = "idle"
    /\ tried = <<>>
    /\ delay = 0
    /\ doRet = Returned(0, "")

cur == Len(conns)

NoEvent == [EnvelopeID |-> <<>>, AcceptsResponsePayload |-> FALSE]

Init ==
    /\ client \in Clients
    /\ handler \in BOOLEAN
    /\ ctx \in {"nil", "live", "canceled", "deadline"}
    /\ pc = "validate"
    /\ retErr = NoErr
    /\ err = NoErr
    /\ socketURL = <<>>
    /\ reply = NoReply
    /\ cpCalls = 0
    /\ dialURLs = <<>>
    /\ waits = 0
    /\ conns = <<>>
    /\ buffered = 0
    /\ reads = 0
    /\ event = NoEvent
    /\ handled = "no"
    /\ response = "nil"
    /\ acked = "idle"
    /\ writes = <<>>
    /\ dispatched = <<>>
    /\ timers = <<>>
    /\ FrameIdle
    /\ ReadIdle
    /\ LockIdle
    /\ DoIdle
    /\ HandshakeIdle

Return(e) == pc' = "done" /\ retErr' = e

\* The checks with the app token compared to "" untrimmed.
ValidationErrorNoTrim ==
    IF ctx = "nil" THEN Err("config", "slack: context is required")
    ELSE IF client.appToken = <<>>
    THEN Err("config", "slack: app-level token is required")
    ELSE IF client.baseURL = NIL THEN Err("config", "slack: socket mode base URL is invalid")
    ELSE IF ~client.transport
    THEN Err("config", "slack: socket mode transport is not configured")
    ELSE IF ~client.dialer THEN Err("config", "slack: socket mode dialer is not configured")
    ELSE NoErr

\* RunWithHandler, the checks of the static configuration.
ValidationError ==
    IF ctx = "nil" THEN Err("config", "slack: context is required")
    ELSE IF TrimSpace(client.appToken) = <<>>
    THEN Err("config", "slack: app-level token is required")
    ELSE IF client.baseURL = NIL THEN Err("config", "slack: socket mode base URL is invalid")
    ELSE IF ~client.transport
    THEN Err("config", "slack: socket mode transport is not configured")
    ELSE IF ~client.dialer THEN Err("config", "slack: socket mode dialer is not configured")
    ELSE NoErr

Validate ==
    /\ pc = "validate"
    /\ IF ValidationError # NoErr
       THEN Return(ValidationError)
       ELSE pc' = "loopTop" /\ retErr' = retErr
    /\ UNCHANGED <<layers, dispatched, timers, client, handler, ctx, err, socketURL, reply, cpCalls, dialURLs, waits,
                   conns, buffered, reads, event, handled, response, acked, writes>>

\* The loop without the ctx.Err() check at its top.
LoopTopNoCheck ==
    /\ pc = "loopTop"
    /\ pc' = "open"
    /\ UNCHANGED <<layers, dispatched, timers, client, handler, ctx, retErr, err, socketURL, reply, cpCalls, dialURLs,
                   waits, conns, buffered, reads, event, handled, response, acked, writes>>

\* RunWithHandler, the check at the top of the loop.
LoopTop ==
    /\ pc = "loopTop"
    /\ IF CtxErr(ctx) # NoErr
       THEN Return(CtxErr(ctx))
       ELSE pc' = "open" /\ retErr' = retErr
    /\ UNCHANGED <<layers, dispatched, timers, client, handler, ctx, err, socketURL, reply, cpCalls, dialURLs, waits,
                   conns, buffered, reads, event, handled, response, acked, writes>>

\* ---------------------------------------------------------- control plane
VendorCodes == {<<"i", "a">>}

\* The endpoint URL the n-th control-plane call mints.
FreshURL(n) == <<"w", ToString(n)>>

Bodies(n) ==
    { Body(f, "absent", <<>>, <<>>) : f \in {"unreadable", "empty", "garbage"} }
    \cup { Body("object", ok, e, u) :
             ok \in {"absent", "true", "false", "other"},
             e \in {<<>>} \cup VendorCodes,
             u \in {<<>>, <<" ">>, FreshURL(n)} }

\* The bodies modelled under a status outside 2xx.
RejectionBodies ==
    { Body("garbage", "absent", <<>>, <<>>) }
    \cup { Body("object", "false", e, <<>>) : e \in VendorCodes }

ErrTransport == Err("net", "dial tcp: connection refused")

\* The error of transport.Do under a context that is done.
ErrDoCtx(c) == [Err("url.Error", "Post: context done") EXCEPT !.is = CtxErr(c).is]

Replies(n, c) ==
    IF c # "live"
    THEN { Reply(ErrDoCtx(c), 0, NoBody) }
    ELSE { Reply(ErrTransport, 0, NoBody) }
         \cup { Reply(NoErr, 200, b) : b \in Bodies(n) }
         \cup { Reply(NoErr, 503, b) : b \in RejectionBodies }

\* parseSlackError
parseSlackError(body) ==
    [Err("slack.Error", "slack: api error") EXCEPT !.code = body.error]

\* transport.NewAPIError(resp, 0)
NewAPIError(status, body) ==
    [Err("transport.APIError", "transport: api error") EXCEPT
        !.status = status, !.body = body]

Result(url, e) == [url |-> url, err |-> e]

\* openConnection without the look at "ok".
openConnectionNoOkCheck(r) ==
    IF client.baseURL = NIL
    THEN Result(<<>>, Err("slack", "slack: base URL is not configured"))
    ELSE IF r.doErr # NoErr THEN Result(<<>>, r.doErr)
    ELSE IF r.status < 200 \/ r.status >= 300
    THEN Result(<<>>, NewAPIError(r.status, r.body))
    ELSE IF r.body.form = "unreadable"
    THEN Result(<<>>, Err("slack", "slack: read apps.connections.open response"))
    ELSE IF r.body.form = "empty"
    THEN Result(<<>>, Err("slack", "slack: empty apps.connections.open response"))
    ELSE IF r.body.form = "garbage"
    THEN Result(<<>>, Err("slack", "slack: decode apps.connections.open response"))
    ELSE IF TrimSpace(r.body.url) = <<>>
    THEN Result(<<>>, Err("slack", "slack: apps.connections.open did not return socket URL"))
    ELSE Result(r.body.url, NoErr)

\* openConnection wrapping the error of transport.Do.
openConnectionWrapsDoErr(r) ==
    IF client.baseURL = NIL
    THEN Result(<<>>, Err("slack", "slack: base URL is not configured"))
    ELSE IF r.doErr # NoErr
    THEN Result(<<>>, [r.doErr EXCEPT !.kind = "fmt.wrapError",
                                      !.msg = "slack: apps.connections.open"])
    ELSE IF r.status < 200 \/ r.status >= 300
    THEN Result(<<>>, NewAPIError(r.status, r.body))
    ELSE IF r.body.form = "unreadable"
    THEN Result(<<>>, Err("slack", "slack: read apps.connections.open response"))
    ELSE IF r.body.form = "empty"
    THEN Result(<<>>, Err("slack", "slack: empty apps.connections.open response"))
    ELSE IF r.body.form = "garbage"
    THEN Result(<<>>, Err("slack", "slack: decode apps.connections.open response"))
    ELSE IF r.body.ok = "false" THEN Result(<<>>, parseSlackError(r.body))
    ELSE IF TrimSpace(r.body.url) = <<>>
    THEN Result(<<>>, Err("slack", "slack: apps.connections.open did not return socket URL"))
    ELSE Result(r.body.url, NoErr)

\* openConnection, from what the transport returned
openConnection(r) ==
    IF client.baseURL = NIL
    THEN Result(<<>>, Err("slack", "slack: base URL is not configured"))
    ELSE IF r.doErr # NoErr THEN Result(<<>>, r.doErr)
    ELSE IF r.status < 200 \/ r.status >= 300
    THEN Result(<<>>, NewAPIError(r.status, r.body))
    ELSE IF r.body.form = "unreadable"
    THEN Result(<<>>, Err("slack", "slack: read apps.connections.open response"))
    ELSE IF r.body.form = "empty"
    THEN Result(<<>>, Err("slack", "slack: empty apps.connections.open response"))
    ELSE IF r.body.form = "garbage"
    THEN Result(<<>>, Err("slack", "slack: decode apps.connections.open response"))
    ELSE IF r.body.ok = "false" THEN Result(<<>>, parseSlackError(r.body))
    ELSE IF TrimSpace(r.body.url) = <<>>
    THEN Result(<<>>, Err("slack", "slack: apps.connections.open did not return socket URL"))
    ELSE Result(r.body.url, NoErr)

\* RunWithHandler, the control-plane lookup of one iteration.
OpenConnection ==
    /\ pc = "open"
    /\ cpCalls <= MaxDials
    /\ \E r \in Replies(cpCalls + 1, ctx) :
        LET res == openConnection(r) IN
        /\ cpCalls' = cpCalls + 1
        /\ reply' = r
        /\ socketURL' = res.url
        /\ IF res.err # NoErr
           THEN Return(res.err)
           ELSE pc' = "dial" /\ retErr' = retErr
    /\ UNCHANGED <<layers, dispatched, timers, client, handler, ctx, err, dialURLs, waits, conns, buffered,
                   reads, event, handled, response, acked, writes>>

\* ------------------------------------------------------------------- dial
\* A websocketConn as Dial returns it: conn is the net.Conn field (FALSE
\* once Close has set it to nil), closes counts Close calls on the
\* net.Conn, stop is the channel of processConnection, watcher the
\* goroutine it starts.
NewConn == [conn |-> TRUE, closes |-> 0, stop |-> "none", watcher |-> "none"]

ErrDial == Err("dial", "slack: dial websocket host")

\* The dial with its error returned to the caller.
DialFatal ==
    /\ pc = "dial"
    /\ Len(dialURLs) < MaxDials
    /\ dialURLs' = Append(dialURLs, socketURL)
    /\ socketURL' = <<>>
    /\ reply' = NoReply
    /\ \/ /\ Return(ErrDial)
          /\ UNCHANGED <<conns, buffered>>
       \/ /\ conns' = Append(conns, NewConn)
          /\ buffered' = 0
          /\ pc' = "process"
          /\ retErr' = retErr
    /\ UNCHANGED <<layers, dispatched, timers, client, handler, ctx, err, cpCalls, waits,
                   reads, event, handled, response, acked, writes>>

\* The dial of a reconnect going to the URL dialled first.
DialReusesURL ==
    /\ pc = "dial"
    /\ Len(dialURLs) < MaxDials
    /\ dialURLs' = Append(dialURLs, IF dialURLs = <<>> THEN socketURL ELSE dialURLs[1])
    /\ socketURL' = <<>>
    /\ reply' = NoReply
    /\ \/ /\ pc' = "waitDial"
          /\ UNCHANGED <<conns, buffered>>
       \/ /\ conns' = Append(conns, NewConn)
          /\ buffered' = 0
          /\ pc' = "process"
    /\ UNCHANGED <<layers, dispatched, timers, client, handler, ctx, retErr, err, cpCalls, waits,
                   reads, event, handled, response, acked, writes>>

\* RunWithHandler, the dial of one iteration.
Dial ==
    /\ pc = "dial"
    /\ Len(dialURLs) < MaxDials
    /\ dialURLs' = Append(dialURLs, socketURL)
    /\ socketURL' = <<>>
    /\ reply' = NoReply
    /\ \/ /\ pc' = "waitDial"
          /\ UNCHANGED <<conns, buffered>>
       \/ /\ conns' = Append(conns, NewConn)
          /\ buffered' = 0
          /\ pc' = "process"
    /\ UNCHANGED <<layers, dispatched, timers, client, handler, ctx, retErr, err, cpCalls, waits,
                   reads, event, handled, response, acked, writes>>

\* The wait giving up once a reconnect has been waited for.
waitReconnectGivesUp(c) ==
    IF waits >= 1 THEN { Err("slack", "slack: too many reconnects") }
    ELSE IF client.reconnectDelay <= 0
    THEN { CtxErr(c) }
    ELSE IF c = "live" THEN { NoErr } ELSE { CtxErr(c), NoErr }

\* waitReconnect: the results it can return under context state c.  With a
\* positive delay and a done context both select cases can be ready.
waitReconnect(c) ==
    IF client.reconnectDelay <= 0
    THEN { CtxErr(c) }
    ELSE IF c = "live" THEN { NoErr } ELSE { CtxErr(c), NoErr }

\* The delay growing with every reconnect.
timerDelayGrowing == client.reconnectDelay * (waits + 1)

\* waitReconnect, the duration of its timer.
timerDelay == client.reconnectDelay

\* RunWithHandler, every call of waitReconnect.
WaitReconnect ==
    /\ pc \in {"waitDial", "waitConn"}
    /\ waits' = waits + 1
    /\ timers' = IF client.reconnectDelay <= 0 THEN timers ELSE Append(timers, timerDelay)
    /\ \E waitErr \in waitReconnect(ctx) :
        IF waitErr # NoErr
        THEN Return(waitErr)
        ELSE pc' = "loopTop" /\ retErr' = retErr
    /\ UNCHANGED <<layers, dispatched, client, handler, ctx, err, socketURL, reply, cpCalls, dialURLs, conns,
                   buffered, reads, event, handled, response, acked, writes>>

\* ------------------------------------------------------------ connection
\* websocketConn.Close
Close(c) == IF c.conn THEN [c EXCEPT !.conn = FALSE, !.closes = @ + 1] ELSE c

EnvelopeIDs == {<<>>, <<" ">>, <<"e">>}

Events == [EnvelopeID : EnvelopeIDs, AcceptsResponsePayload : BOOLEAN]

\* processConnection, up to the read loop: the stop channel and the
\* cancellation watcher.
ProcessStart ==
    /\ pc = "process"
    /\ conns' = [conns EXCEPT ![cur].stop = "open", ![cur].watcher = "running"]
    /\ pc' = "read"
    /\ UNCHANGED <<layers, dispatched, timers, client, handler, ctx, retErr, err, socketURL, reply, cpCalls, dialURLs,
                   waits, buffered, reads, event, handled, response, acked, writes>>

\* The goroutine without the ctx.Done() case.
WatcherStopOnly(i) ==
    /\ conns[i].watcher = "running"
    /\ conns[i].stop = "closed"
    /\ conns' = [conns EXCEPT ![i].watcher = "stopped"]
    /\ UNCHANGED <<layers, dispatched, timers, client, handler, ctx, pc, retErr, err, socketURL, reply, cpCalls, dialURLs,
                   waits, buffered, reads, event, handled, response, acked, writes>>

\* The goroutine of processConnection for connection i: one select.
Watcher(i) ==
    /\ conns[i].watcher = "running"
    /\ \/ /\ ctx \notin {"live", "nil"}
          /\ conns' = [conns EXCEPT ![i] = [Close(@) EXCEPT !.watcher = "closed"]]
       \/ /\ conns[i].stop = "closed"
          /\ conns' = [conns EXCEPT ![i].watcher = "stopped"]
    /\ UNCHANGED <<layers, dispatched, timers, client, handler, ctx, pc, retErr, err, socketURL, reply, cpCalls, dialURLs,
                   waits, buffered, reads, event, handled, response, acked, writes>>

\* processConnection returning without close(stop).
ProcessReturnNoStop(e) ==
    /\ err' = e
    /\ conns' = conns
    /\ event' = NoEvent
    /\ handled' = "no"
    /\ response' = "nil"
    /\ writes' = <<>>
    /\ pc' = "close"

\* processConnection returns e: the deferred close(stop) runs and the
\* locals of the read loop are gone.
ProcessReturn(e) ==
    /\ err' = e
    /\ conns' = [conns EXCEPT ![cur].stop = "closed"]
    /\ event' = NoEvent
    /\ handled' = "no"
    /\ response' = "nil"
    /\ writes' = <<>>
    /\ pc' = "close"

\* The envelope acknowledged without the handler being called.
DeliverSkipsHandler(e) ==
    /\ reads' = reads + 1
    /\ dispatched' = dispatched
    /\ event' = e
    /\ handled' = "no"
    /\ response' = "nil"
    /\ acked' = "pending"
    /\ pc' = "ack"

\* processConnection: ReadJSON has delivered envelope e, and with a handler
\* HandleEvent is called with it.
Deliver(e) ==
    /\ reads' = reads + 1
    /\ dispatched' = IF handler THEN Append(dispatched, reads + 1) ELSE dispatched
    /\ event' = e
    /\ handled' = "no"
    /\ response' = "nil"
    /\ acked' = "pending"
    /\ pc' = IF handler THEN "handle" ELSE "ack"

\* ReadJSON returns a message that is already in the bufio buffer, whether
\* or not the net.Conn has been closed.
ReadBuffered ==
    /\ pc = "read"
    /\ buffered > 0
    /\ buffered' = buffered - 1
    /\ \E e \in Events : Deliver(e)
    /\ UNCHANGED <<layers, timers, client, handler, ctx, retErr, err, socketURL, reply, cpCalls, dialURLs,
                   waits, conns, writes>>

\* ReadJSON was blocked on the socket and the peer sends a message; the
\* read that fetches it can leave further complete messages in the buffer.
ReadSocket ==
    /\ pc = "read"
    /\ reads < MaxEvents
    /\ buffered = 0
    /\ conns[cur].conn
    /\ buffered' \in 0 .. Min(MaxBuffered, MaxEvents - reads - 1)
    /\ \E e \in Events : Deliver(e)
    /\ UNCHANGED <<layers, timers, client, handler, ctx, retErr, err, socketURL, reply, cpCalls, dialURLs,
                   waits, conns, writes>>

ReadErrors ==
    { [Err("io", "EOF") EXCEPT !.is = "io.EOF"],
      Err("websocket", "slack: unexpected websocket continuation frame"),
      Err("websocket", "slack: websocket frame too large"),
      Err("websocket", "slack: decode websocket message") }

ErrNetClosed == Err("net", "use of closed network connection")
ErrClosedPipe == [Err("io", "io: read/write on closed pipe") EXCEPT !.is = "io.ErrClosedPipe"]
ErrWrite == Err("websocket", "slack: write websocket frame")

\* ReadJSON fails on the open socket: close frame, end of stream, protocol
\* violation, undecodable message.
ReadError ==
    /\ pc = "read"
    /\ buffered = 0
    /\ conns[cur].conn
    /\ \E e \in ReadErrors : ProcessReturn(e)
    /\ UNCHANGED <<layers, dispatched, timers, client, handler, ctx, retErr, socketURL, reply, cpCalls, dialURLs, waits,
                   buffered, reads, acked>>

\* ReadJSON fails because the net.Conn was closed under the reader.
ReadClosed ==
    /\ pc = "read"
    /\ buffered = 0
    /\ ~conns[cur].conn
    /\ ProcessReturn(ErrNetClosed)
    /\ UNCHANGED <<layers, dispatched, timers, client, handler, ctx, retErr, socketURL, reply, cpCalls, dialURLs, waits,
                   buffered, reads, acked>>

\* What HandleEvent can return: a response or nil, an error or nil.
HandlerResults == [resp : BOOLEAN, err : BOOLEAN]

Handled(r) ==
    CASE r.err /\ r.resp -> "resp+err"
      [] r.err /\ ~r.resp -> "err"
      [] ~r.err /\ r.resp -> "resp"
      [] OTHER -> "nil"

\* The response kept although the handler returned an error.
responseOfIgnoringErr(r) == IF r.resp THEN "resp" ELSE "nil"

\* processConnection, the result of handler.HandleEvent
responseOf(r) == IF r.err THEN "nil" ELSE IF r.resp THEN "resp" ELSE "nil"

HandleEvent ==
    /\ pc = "handle"
    /\ \E r \in HandlerResults :
        /\ response' = responseOf(r)
        /\ handled' = Handled(r)
    /\ pc' = "ack"
    /\ UNCHANGED <<layers, dispatched, timers, client, handler, ctx, retErr, err, socketURL, reply, cpCalls, dialURLs,
                   waits, conns, buffered, reads, event, acked, writes>>

\* The envelope_id compared to "" untrimmed.
needsAckNoTrim(e) == e.EnvelopeID # <<>>

\* Every envelope acknowledged.
needsAckAlways(e) == TRUE

\* processConnection: is an Acknowledgement due for event e
needsAck(e) == TrimSpace(e.EnvelopeID) # <<>>

\* The payload set whenever there is a response.
ackOfAnyResponse(e, r) ==
    [envelope_id |-> e.EnvelopeID,
     payload |-> r # "nil"]

\* processConnection: the ack map built for event e and response r
ackOf(e, r) ==
    [envelope_id |-> e.EnvelopeID,
     payload |-> r # "nil" /\ e.AcceptsResponsePayload]

\* processConnection, from the envelope_id check to the end of the iteration.
\* WriteJSON fails with io.ErrClosedPipe on a closed connection and can fail
\* on an open one (encoding, socket write).
Acknowledge ==
    /\ pc = "ack"
    /\ IF ~needsAck(event)
       THEN /\ pc' = "read"
            /\ acked' = "none"
            /\ UNCHANGED <<err, conns, event, handled, response, writes>>
       ELSE IF ~conns[cur].conn
       THEN /\ ProcessReturn(ErrClosedPipe)
            /\ acked' = "failed"
       ELSE \/ /\ writes' = Append(writes, ackOf(event, response))
               /\ acked' = "written"
               /\ pc' = "read"
               /\ UNCHANGED <<err, conns, event, handled, response>>
            \/ /\ ProcessReturn(ErrWrite)
               /\ acked' = "failed"
    /\ UNCHANGED <<layers, dispatched, timers, client, handler, ctx, retErr, socketURL, reply, cpCalls, dialURLs, waits,
                   buffered, reads>>

\* The loop going on without conn.Close().
CloseConnSkipped ==
    /\ pc = "close"
    /\ pc' = "after"
    /\ UNCHANGED <<layers, dispatched, timers, client, handler, ctx, retErr, err, socketURL, reply, cpCalls,
                   dialURLs, waits, conns, buffered, reads, event, handled, response, acked,
                   writes>>

\* RunWithHandler: conn.Close() after processConnection
CloseConn ==
    /\ pc = "close"
    /\ conns' = [conns EXCEPT ![cur] = Close(@)]
    /\ pc' = "after"
    /\ UNCHANGED <<layers, dispatched, timers, client, handler, ctx, retErr, err, socketURL, reply, cpCalls, dialURLs,
                   waits, buffered, reads, event, handled, response, acked, writes>>

\* Every error of processConnection returned to the caller.
afterConnectionFatal(e, c) == e

\* The end of a connection without the look at ctx.Err().
afterConnectionNoCtxCheck(e, c) ==
    IF e = NoErr THEN NoErr
    ELSE IF IsCancellation(e) THEN e
    ELSE NoErr

\* RunWithHandler: what follows conn.Close(), "wait" or the error returned
afterConnection(e, c) ==
    IF e = NoErr THEN NoErr
    ELSE IF IsCancellation(e) THEN e
    ELSE IF CtxErr(c) # NoErr THEN CtxErr(c)
    ELSE NoErr

AfterConnection ==
    /\ pc = "after"
    /\ IF afterConnection(err, ctx) # NoErr
       THEN Return(afterConnection(err, ctx))
       ELSE pc' = "waitConn" /\ retErr' = retErr
    /\ err' = IF afterConnection(err, ctx) # NoErr THEN err ELSE NoErr
    /\ acked' = "idle"
    /\ UNCHANGED <<layers, dispatched, timers, client, handler, ctx, socketURL, reply, cpCalls, dialURLs, waits,
                   conns, buffered, reads, event, handled, response, writes>>

\* The caller cancels the context, or its deadline passes.
Cancel ==
    /\ ctx = "live"
    /\ ctx' \in {"canceled", "deadline"}
    /\ UNCHANGED <<layers, dispatched, timers, client, handler, pc, retErr, err, socketURL, reply, cpCalls, dialURLs,
                   waits, conns, buffered, reads, event, handled, response, acked, writes>>

Supervisor ==
    \/ Validate
    \/ LoopTop
    \/ OpenConnection
    \/ Dial
    \/ WaitReconnect
    \/ ProcessStart
    \/ ReadBuffered
    \/ ReadClosed
    \/ HandleEvent
    \/ Acknowledge
    \/ CloseConn
    \/ AfterConnection

Watchers == \E i \in 1 .. Len(conns) : Watcher(i)

Next ==
    \/ Supervisor
    \/ ReadSocket
    \/ ReadError
    \/ Watchers
    \/ Cancel

Spec == Init /\ [][Next]_vars

\* The goroutines are scheduled fairly, calls into the transport, the
\* dialer and the handler return, and a timer fires.  Nothing is assumed
\* of the peer or of the caller's cancellation.
FairSpec == Spec /\ WF_vars(Supervisor) /\ WF_vars(Watchers)

\* ------------------------------------------------- one frame, there and back
\* RunWithHandler is not running.
SupIdle ==
    /\ client = [appToken |-> <<>>, baseURL |-> NIL, transport |-> FALSE, dialer |-> FALSE,
                 reconnectDelay |-> 0]
    /\ handler = FALSE
    /\ ctx = "nil"
    /\ pc = "idle"
    /\ retErr = NoErr
    /\ err = NoErr
    /\ socketURL = <<>>
    /\ reply = NoReply
    /\ cpCalls = 0
    /\ dialURLs = <<>>
    /\ waits = 0
    /\ conns = <<>>
    /\ buffered = 0
    /\ reads = 0
    /\ event = NoEvent
    /\ handled = "no"
    /\ response = "nil"
    /\ acked = "idle"
    /\ writes = <<>>
    /\ dispatched = <<>>
    /\ timers = <<>>

FrameInit ==
    /\ SupIdle
    /\ ReadIdle
    /\ LockIdle
    /\ DoIdle
    /\ HandshakeIdle
    /\ call \in Calls
    /\ frame = Summary(<<>>)
    /\ reader \in Tails
    /\ decoded = NoDigest
    /\ fpc = "build"

\* frame, err := buildClientFrame(opcode, payload)
BuildFrame ==
    /\ fpc = "build"
    /\ \E p \in { Payload(call.len, call.first) } :
       \E f \in { buildClientFrame(call.opcode, p, call.mask) } :
        frame' = Summary(f)
    /\ fpc' = "read"
    /\ UNCHANGED <<supVars, doVars, hsVars, readVars, lockVars, call, reader, decoded>>

\* readFrame on a reader that holds the bytes of the frame and what follows
ReadFrame ==
    /\ fpc = "read"
    /\ \E p \in { Payload(call.len, call.first) } :
       \E s \in { buildClientFrame(call.opcode, p, call.mask) \o reader } :
       \E f \in { readFrame(s) } :
        decoded' = Digest(f, p, s)
    /\ fpc' = "done"
    /\ UNCHANGED <<supVars, doVars, hsVars, readVars, lockVars, call, frame, reader>>

FrameNext == BuildFrame \/ ReadFrame

FrameSpec == FrameInit /\ [][FrameNext]_vars

\* ------------------------------------------- frames at the maximum size
\* Payload lengths around maxWebSocketFrameSize.
BigLens ==
    { maxWebSocketFrameSize - 1, maxWebSocketFrameSize, maxWebSocketFrameSize + 1,
      2 * maxWebSocketFrameSize }

\* What the reader holds of a frame of the peer that is too long to be
\* held whole: the header with its 64-bit length, the mask if there is
\* one, and the payload bytes that have arrived.
PeerHeaders ==
    { <<128 + wsOpcodeBinary, m + 127>> \o len \o (IF m = 128 THEN <<9, 8, 7, 6>> ELSE <<>>) \o got :
        m \in {0, 128},
        len \in { PutUint64(n) : n \in BigLens }
                  \cup { <<0, 0, 0, 1, 0, 0, 0, 0>>, <<128, 0, 0, 0, 0, 0, 0, 0>> },
        got \in { <<>>, <<1, 2, 3>> } }

\* The calls of buildClientFrame with a payload of such a length; its
\* bytes are left open.
BigCalls == [opcode : {wsOpcodeText, wsOpcodeBinary, wsOpcodePong}, len : BigLens,
             first : {0}, mask : Masks]

LimitInit ==
    /\ SupIdle
    /\ ReadIdle
    /\ LockIdle
    /\ DoIdle
    /\ HandshakeIdle
    /\ call \in BigCalls
    /\ frame = Summary(<<>>)
    /\ reader \in PeerHeaders
    /\ decoded = NoDigest
    /\ fpc = "build"

\* frame, err := buildClientFrame(opcode, payload) for a payload of
\* call.len bytes: the frame by its length and its header.
BuildBigFrame ==
    /\ fpc = "build"
    /\ \E h \in { frameHeader(call.opcode, call.len, call.mask) } :
        frame' = [len |-> Len(h) + call.len, head |-> h]
    /\ fpc' = "read"
    /\ UNCHANGED <<supVars, doVars, hsVars, readVars, lockVars, call, reader, decoded>>

\* readFrame on a reader that holds the start of a frame of the peer
ReadBigFrame ==
    /\ fpc = "read"
    /\ \E f \in { readFrame(reader) } :
        decoded' = Digest(f, <<>>, reader)
    /\ fpc' = "done"
    /\ UNCHANGED <<supVars, doVars, hsVars, readVars, lockVars, call, frame, reader>>

LimitNext == BuildBigFrame \/ ReadBigFrame

LimitSpec == LimitInit /\ [][LimitNext]_vars

\* ------------------------------------------------------------ readMessage
\* The bytes a frame of a message can carry, after the bytes so far of
\* that message: none, or the next one or two of the bytes 65, 66, 67, ...
Pieces(sofar) == { [i \in 1 .. k |-> 64 + Len(sofar) + i] : k \in 0 .. 2 }

PingPayloads == { <<7>> }

PeerFrame(opcode, fin, payload) == [opcode |-> opcode, fin |-> fin, payload |-> payload]

\* A frame that breaks the order of fragments: a continuation while the
\* peer has no message open, a data frame while it has one.
OutOfOrder(f) ==
    /\ f.opcode \in {wsOpcodeContinuation, wsOpcodeText, wsOpcodeBinary}
    /\ (f.opcode = wsOpcodeContinuation) <=> (sending.n = 0)

\* The frames the peer can send next: the first or the next frame of a
\* message, a ping, a pong, a frame out of order.
PeerFrames ==
    (IF sending.n = 0
     THEN { PeerFrame(op, fin, p) :
              op \in {wsOpcodeText, wsOpcodeBinary},
              fin \in IF MaxFragments > 1 THEN BOOLEAN ELSE {TRUE},
              p \in Pieces(sending.bytes) }
     ELSE { PeerFrame(wsOpcodeContinuation, fin, p) :
              fin \in IF sending.n + 1 < MaxFragments THEN BOOLEAN ELSE {TRUE},
              p \in Pieces(sending.bytes) })
    \cup { PeerFrame(wsOpcodePing, TRUE, x) : x \in PingPayloads }
    \cup { PeerFrame(wsOpcodePong, TRUE, <<>>) }
    \cup { PeerFrame(IF sending.n = 0 THEN wsOpcodeContinuation ELSE wsOpcodeText, fin, <<33>>) :
             fin \in BOOLEAN }

\* The bytes of a frame of the peer as readFrame takes them apart: not
\* masked, the payload shorter than 126 bytes.
ServerFrame(f) ==
    <<(IF f.fin THEN 128 ELSE 0) + f.opcode, Len(f.payload)>> \o f.payload

ReadInit ==
    /\ SupIdle
    /\ FrameIdle
    /\ LockIdle
    /\ DoIdle
    /\ HandshakeIdle
    /\ socket = <<>>
    /\ bufio = <<>>
    /\ netConn = TRUE
    /\ wire = <<>>
    /\ buffer = <<>>
    /\ expectContinuation = FALSE
    /\ rpc = "read"
    /\ message = <<>>
    /\ readErr = ""
    /\ inflight = <<>>
    /\ sending = NoMessage
    /\ sent = <<>>
    /\ expected = NoMessage

\* The peer takes what was written to it and sends one frame.
PeerSend ==
    /\ rpc \in {"read", "returned"}
    /\ netConn
    /\ Len(inflight) < MaxInFlight
    /\ \E f \in PeerFrames :
        /\ socket' = socket \o ServerFrame(f)
        /\ inflight' = Append(inflight, f)
        /\ IF f.opcode \in {wsOpcodePing, wsOpcodePong} \/ OutOfOrder(f)
           THEN UNCHANGED <<sending, sent>>
           ELSE LET m == [bytes |-> sending.bytes \o f.payload, n |-> sending.n + 1]
                IN  IF f.fin
                    THEN sending' = NoMessage /\ sent' = Append(sent, m)
                    ELSE sending' = m /\ sent' = sent
    /\ wire' = <<>>
    /\ UNCHANGED <<supVars, doVars, hsVars, frameVars, lockVars, bufio, netConn, buffer, expectContinuation, rpc,
                   message, readErr, expected>>

\* websocketConn.Close called by another goroutine than the reader
CloseUnderReader ==
    /\ rpc \in {"read", "returned"}
    /\ netConn
    /\ netConn' = FALSE
    /\ UNCHANGED <<supVars, doVars, hsVars, frameVars, lockVars, socket, bufio, wire, buffer, expectContinuation, rpc,
                   message, readErr, inflight, sending, sent, expected>>

\* writeFrame as one call: what it returns and the bytes it writes.  The
\* mask is what rand.Read yields.
writeFrame(opcode, payload) ==
    IF ~netConn
    THEN { [err |-> "io: read/write on closed pipe", bytes |-> <<>>] }
    ELSE { [err |-> "", bytes |-> buildClientFrame(opcode, payload, m)] : m \in Masks }
         \cup { [err |-> "slack: write websocket frame", bytes |-> <<>>] }

\* The pong sent without the payload of the ping.
pongPayloadEmpty(payload) == <<>>

\* readMessage, the payload of the pong that answers a ping
pongPayload(payload) == payload

\* The bytes written replacing what the buffer holds.
bufferWriteReplaces(buf, payload) == payload

\* buffer.Write(payload)
bufferWrite(buf, payload) == buf \o payload

Outcome(kind, msg, buf, expect, e) ==
    [kind |-> kind, message |-> msg, buffer |-> buf, expectContinuation |-> expect, err |-> e]

\* The switch taking every data and continuation frame as it comes.
readMessageAnyOrder(f, buf, expect) ==
    CASE f.opcode \in {wsOpcodeText, wsOpcodeBinary} ->
            IF f.fin THEN Outcome("return", f.payload, buf, expect, "")
            ELSE Outcome("continue", <<>>, bufferWrite(buf, f.payload), TRUE, "")
      [] f.opcode = wsOpcodeContinuation ->
            IF f.fin
            THEN Outcome("return", bufferWrite(buf, f.payload), buf, expect, "")
            ELSE Outcome("continue", <<>>, bufferWrite(buf, f.payload), expect, "")
      [] f.opcode = wsOpcodePing -> Outcome("pong", <<>>, buf, expect, "")
      [] f.opcode = wsOpcodePong -> Outcome("continue", <<>>, buf, expect, "")
      [] f.opcode = wsOpcodeClose -> Outcome("error", <<>>, buf, expect, "EOF")
      [] OTHER -> Outcome("error", <<>>, buf, expect, "slack: unsupported websocket opcode")

\* The switch with a ping and a pong dropping the fragments read so far.
readMessageControlResets(f, buf, expect) ==
    CASE f.opcode \in {wsOpcodeText, wsOpcodeBinary} ->
            IF expect
            THEN Outcome("error", <<>>, buf, expect, "slack: unexpected websocket data frame")
            ELSE IF f.fin THEN Outcome("return", f.payload, buf, expect, "")
            ELSE Outcome("continue", <<>>, bufferWrite(buf, f.payload), TRUE, "")
      [] f.opcode = wsOpcodeContinuation ->
            IF ~expect
            THEN Outcome("error", <<>>, buf, expect,
                         "slack: unexpected websocket continuation frame")
            ELSE IF f.fin
            THEN Outcome("return", bufferWrite(buf, f.payload), buf, expect, "")
            ELSE Outcome("continue", <<>>, bufferWrite(buf, f.payload), expect, "")
      [] f.opcode = wsOpcodePing -> Outcome("pong", <<>>, <<>>, expect, "")
      [] f.opcode = wsOpcodePong -> Outcome("continue", <<>>, <<>>, expect, "")
      [] f.opcode = wsOpcodeClose -> Outcome("error", <<>>, buf, expect, "EOF")
      [] OTHER -> Outcome("error", <<>>, buf, expect, "slack: unsupported websocket opcode")

\* readMessage, the switch on the opcode of frame f
readMessage(f, buf, expect) ==
    CASE f.opcode \in {wsOpcodeText, wsOpcodeBinary} ->
            IF expect
            THEN Outcome("error", <<>>, buf, expect, "slack: unexpected websocket data frame")
            ELSE IF f.fin THEN Outcome("return", f.payload, buf, expect, "")
            ELSE Outcome("continue", <<>>, bufferWrite(buf, f.payload), TRUE, "")
      [] f.opcode = wsOpcodeContinuation ->
            IF ~expect
            THEN Outcome("error", <<>>, buf, expect,
                         "slack: unexpected websocket continuation frame")
            ELSE IF f.fin
            THEN Outcome("return", bufferWrite(buf, f.payload), buf, expect, "")
            ELSE Outcome("continue", <<>>, bufferWrite(buf, f.payload), expect, "")
      [] f.opcode = wsOpcodePing -> Outcome("pong", <<>>, buf, expect, "")
      [] f.opcode = wsOpcodePong -> Outcome("continue", <<>>, buf, expect, "")
      [] f.opcode = wsOpcodeClose -> Outcome("error", <<>>, buf, expect, "EOF")
      [] OTHER -> Outcome("error", <<>>, buf, expect, "slack: unsupported websocket opcode")

\* The caller has taken the message returned last.
Taken == message' = <<>> /\ expected' = NoMessage

\* readMessage returns error e.
ReadFails(e) ==
    /\ rpc' = "failed"
    /\ readErr' = e
    /\ Taken
    /\ UNCHANGED <<wire, buffer, expectContinuation, sent>>

\* One turn of the loop of readMessage: readFrame, which fetches what the
\* socket holds when the reader holds no complete frame, then the switch.
\* With rpc = "returned" it is the first turn of the next call.
ReadMessageFrame ==
    /\ rpc \in {"read", "returned"}
    /\ LET fetch == netConn /\ readFrame(bufio).err = "short"
           avail == IF fetch THEN bufio \o socket ELSE bufio
           f == readFrame(avail)
           o == readMessage(f, buffer, expectContinuation)
       IN  /\ f.err = "short" => ~netConn
           /\ socket' = IF fetch THEN <<>> ELSE socket
           /\ bufio' = SubSeq(avail, f.n + 1, Len(avail))
           /\ inflight' = IF f.err = "" THEN Tail(inflight) ELSE inflight
           /\ IF f.err = "short" THEN ReadFails("use of closed network connection")
              ELSE IF f.err # "" THEN ReadFails(f.err)
              ELSE IF o.kind = "error" THEN ReadFails(o.err)
              ELSE IF o.kind = "pong"
              THEN \E w \in writeFrame(wsOpcodePong, pongPayload(f.payload)) :
                    IF w.err # "" THEN ReadFails(w.err)
                    ELSE /\ wire' = wire \o w.bytes
                         /\ rpc' = "read"
                         /\ buffer' = o.buffer
                         /\ expectContinuation' = o.expectContinuation
                         /\ Taken
                         /\ UNCHANGED <<readErr, sent>>
              ELSE IF o.kind = "return"
              THEN /\ rpc' = "returned"
                   /\ message' = o.message
                   /\ buffer' = <<>>
                   /\ expectContinuation' = FALSE
                   /\ expected' = IF sent = <<>> THEN [bytes |-> <<>>, n |-> -1] ELSE Head(sent)
                   /\ sent' = IF sent = <<>> THEN sent ELSE Tail(sent)
                   /\ UNCHANGED <<wire, readErr>>
              ELSE /\ rpc' = "read"
                   /\ buffer' = o.buffer
                   /\ expectContinuation' = o.expectContinuation
                   /\ Taken
                   /\ UNCHANGED <<wire, readErr, sent>>
    /\ UNCHANGED <<supVars, doVars, hsVars, frameVars, lockVars, netConn, sending>>

ReadNext == PeerSend \/ CloseUnderReader \/ ReadMessageFrame

ReadSpec == ReadInit /\ [][ReadNext]_vars

\* ------------------------------------------------ writeFrame, Close, writeMu
\* What is written: the Acknowledgement of WriteJSON, the pong of readMessage;
\* mask is what rand.Read yields in buildClientFrame.
WriteCalls ==
    { [opcode |-> wsOpcodeText, payload |-> <<123, 125>>, mask |-> <<255, 1, 128, 77>>],
      [opcode |-> wsOpcodePong, payload |-> <<7>>, mask |-> <<0, 0, 0, 0>>] }

ConnInit ==
    /\ SupIdle
    /\ FrameIdle
    /\ DoIdle
    /\ HandshakeIdle
    /\ ReaderIdle
    /\ netConn = TRUE
    /\ wire = <<>>
    /\ LockIdle

Goes(t, pc2) == tasks' = [tasks EXCEPT ![t].pc = pc2]

\* The call of goroutine t returns ret; the deferred Unlock runs.
Returns(t, ret, n) ==
    /\ tasks' = [tasks EXCEPT ![t] = Idle(ret, n)]
    /\ writeMu' = 0

\* The mutex taken whoever holds it.
LockNoWait(t) == writeMu' = t

\* c.writeMu.Lock() by goroutine t
Lock(t) == writeMu = 0 /\ writeMu' = t

\* WriteJSON, or readMessage on a ping, calls writeFrame.
WriteFrameCall(t) ==
    /\ tasks[t].pc = "idle"
    /\ started < MaxCalls
    /\ started' = started + 1
    /\ \E c \in WriteCalls :
        tasks' = [tasks EXCEPT ![t].pc = "wLock",
                               ![t].frame = buildClientFrame(c.opcode, c.payload, c.mask)]
    /\ UNCHANGED <<supVars, doVars, hsVars, frameVars, readerVars, netConn, wire, writeMu, sockCloses>>

WriteFrameLock(t) ==
    /\ tasks[t].pc = "wLock"
    /\ Lock(t)
    /\ Goes(t, "wCheck")
    /\ UNCHANGED <<supVars, doVars, hsVars, frameVars, readerVars, netConn, wire, sockCloses, started>>

\* writeFrame: if c.conn == nil
WriteFrameCheck(t) ==
    /\ tasks[t].pc = "wCheck"
    /\ IF ~netConn
       THEN Returns(t, "io: read/write on closed pipe", tasks[t].n)
       ELSE Goes(t, "write") /\ writeMu' = writeMu
    /\ UNCHANGED <<supVars, doVars, hsVars, frameVars, readerVars, netConn, wire, sockCloses, started>>

\* c.conn.Write(frame): the net.Conn takes the frame in one piece or in two.
ConnWrite(t) ==
    /\ tasks[t].pc = "write"
    /\ \E k \in IF tasks[t].at = 0 THEN 1 .. Len(tasks[t].frame) ELSE {Len(tasks[t].frame)} :
        /\ wire' = wire \o SubSeq(tasks[t].frame, tasks[t].at + 1, k)
        /\ IF k = Len(tasks[t].frame)
           THEN Returns(t, "nil", tasks[t].n)
           ELSE tasks' = [tasks EXCEPT ![t].at = k] /\ writeMu' = writeMu
    /\ UNCHANGED <<supVars, doVars, hsVars, frameVars, readerVars, netConn, sockCloses, started>>

\* RunWithHandler, or the watcher of processConnection, calls Close.
CloseCall(t) ==
    /\ tasks[t].pc = "idle"
    /\ started < MaxCalls
    /\ started' = started + 1
    /\ Goes(t, "cLock")
    /\ UNCHANGED <<supVars, doVars, hsVars, frameVars, readerVars, netConn, wire, writeMu, sockCloses>>

CloseLock(t) ==
    /\ tasks[t].pc = "cLock"
    /\ Lock(t)
    /\ Goes(t, "cCheck")
    /\ UNCHANGED <<supVars, doVars, hsVars, frameVars, readerVars, netConn, wire, sockCloses, started>>

\* Close going on to conn.Close() whatever c.conn is.
CloseCheckSkipped(t) ==
    /\ tasks[t].pc = "cCheck"
    /\ netConn' = FALSE
    /\ Goes(t, "closing")
    /\ UNCHANGED <<supVars, doVars, hsVars, frameVars, readerVars, wire, writeMu, sockCloses, started>>

\* Close: if c.conn == nil return nil, else conn := c.conn and c.conn = nil
CloseCheck(t) ==
    /\ tasks[t].pc = "cCheck"
    /\ IF ~netConn
       THEN Returns(t, "nil", tasks[t].n + 1) /\ netConn' = netConn
       ELSE netConn' = FALSE /\ Goes(t, "closing") /\ writeMu' = writeMu
    /\ UNCHANGED <<supVars, doVars, hsVars, frameVars, readerVars, wire, sockCloses, started>>

\* Close: return conn.Close(), with whatever the net.Conn returns
ConnClose(t) ==
    /\ tasks[t].pc = "closing"
    /\ sockCloses' = sockCloses + 1
    /\ \E ret \in {"nil", "close tcp: broken pipe"} : Returns(t, ret, tasks[t].n + 1)
    /\ UNCHANGED <<supVars, doVars, hsVars, frameVars, readerVars, netConn, wire, started>>

ConnNext ==
    \E t \in Goroutines :
        \/ WriteFrameCall(t)
        \/ WriteFrameLock(t)
        \/ WriteFrameCheck(t)
        \/ ConnWrite(t)
        \/ CloseCall(t)
        \/ CloseLock(t)
        \/ CloseCheck(t)
        \/ ConnClose(t)

ConnSpec == ConnInit /\ [][ConnNext]_vars

\* --------------------------------------------------- transport.Client.Do
StatusTooManyRequests == 429
StatusInternalServerError == 500
StatusBadGateway == 502
StatusServiceUnavailable == 503
StatusGatewayTimeout == 504

defaultRetryConfig ==
    [MaxAttempts |-> 3, InitialBackoff |-> 200, MaxBackoff |-> 2000, Jitter |-> 100]

normalizeRetryConfig(cfg) ==
    LET a == IF cfg.MaxAttempts <= 0
             THEN [cfg EXCEPT !.MaxAttempts = defaultRetryConfig.MaxAttempts] ELSE cfg
        b == IF a.InitialBackoff <= 0
             THEN [a EXCEPT !.InitialBackoff = defaultRetryConfig.InitialBackoff] ELSE a
        c == IF b.MaxBackoff <= 0
             THEN [b EXCEPT !.MaxBackoff = defaultRetryConfig.MaxBackoff] ELSE b
        d == IF c.MaxBackoff < c.InitialBackoff
             THEN [c EXCEPT !.MaxBackoff = c.InitialBackoff] ELSE c
    IN  IF d.Jitter < 0 THEN [d EXCEPT !.Jitter = 0] ELSE d

\* The RetryConfig values a client is built with.
RetryConfigs ==
    { [MaxAttempts |-> n, InitialBackoff |-> t[1], MaxBackoff |-> t[2], Jitter |-> t[3]] :
        n \in -1 .. MaxRetries, t \in { <<0, 0, 0>>, <<300, 200, -1>>, <<900, 2000, 2>> } }

\* Requests by what Do looks at: the Body and GetBody.
Requests == { NilRequest } \cup [nil : {FALSE}, Body : BOOLEAN, GetBody : BOOLEAN]

\* What c.httpClient.Do gives: a response, with its status and the delay of
\* its Retry-After header (0 without one), or an error, which is one of the
\* context, a net.Error, or neither.
Response(status, retryAfter) ==
    [status |-> status, retryAfter |-> retryAfter, err |-> "", ctxErr |-> FALSE, netErr |-> FALSE]

Failure(e, ctxErr, netErr) ==
    [status |-> 0, retryAfter |-> 0, err |-> e, ctxErr |-> ctxErr, netErr |-> netErr]

Statuses == {200, 404, 429, 500, 501, 502, 503, 504, 505}

RoundTrips ==
    IF reqCtx = "canceled" THEN { Failure("context canceled", TRUE, FALSE) }
    ELSE IF reqCtx = "deadline" THEN { Failure("context deadline exceeded", TRUE, TRUE) }
    ELSE { Response(st, ra) : st \in Statuses, ra \in {0, 1000} }
            \cup { Failure("dial tcp: i/o timeout", FALSE, TRUE),
                   Failure("http: server gave HTTP response to HTTPS client", FALSE, FALSE) }

shouldRetryError(r) ==
    IF r.err = "" THEN FALSE
    ELSE IF r.ctxErr THEN FALSE
    ELSE r.netErr

shouldRetryStatus(statusCode) ==
    IF statusCode = StatusTooManyRequests THEN TRUE
    ELSE \/ statusCode = StatusInternalServerError
         \/ statusCode = StatusBadGateway
         \/ statusCode = StatusServiceUnavailable
         \/ statusCode = StatusGatewayTimeout

\* The backoff before the jitter: doubled attempt - 1 times, stopping at MaxBackoff.
RECURSIVE Doubled(_, _, _)
Doubled(backoff, i, n) ==
    IF i >= n THEN backoff
    ELSE IF backoff * 2 >= retry.MaxBackoff THEN retry.MaxBackoff
    ELSE Doubled(backoff * 2, i + 1, n)

\* The durations nextBackoff can return; c.rand.Int63n(Jitter) is any of 0 .. Jitter - 1.
nextBackoff(n, retryAfter) ==
    IF retryAfter > 0 THEN { retryAfter }
    ELSE { Min(Doubled(retry.InitialBackoff, 1, n) + j, retry.MaxBackoff) :
             j \in IF retry.Jitter > 0 THEN 0 .. retry.Jitter - 1 ELSE {0} }

\* requestForAttempt: the errors it can return, "" for a request.
requestForAttempt(n) ==
    IF ~req.Body THEN {""}
    ELSE IF n = 1 THEN {""}
    ELSE IF ~req.GetBody THEN {"transport: request body is not replayable"}
    ELSE {"", "transport: clone body for retry"}

\* Every request gets c.retry.MaxAttempts attempts.
attemptsAlways == retry.MaxAttempts

\* attempts in Do: one for a request whose body cannot be replayed.
attemptsOf == IF ~req.Body \/ req.GetBody THEN retry.MaxAttempts ELSE 1

DoInit ==
    /\ SupIdle
    /\ FrameIdle
    /\ ReadIdle
    /\ LockIdle
    /\ HandshakeIdle
    /\ retry \in { normalizeRetryConfig(cfg) : cfg \in RetryConfigs }
    /\ req \in Requests
    /\ reqCtx = "live"
    /\ attempts = 0
    /\ attempt = 0
    /\ lastErr = ""
    /\ dpc = "call"
    /\ tried = <<>>
    /\ delay = 0
    /\ doRet = Returned(0, "")

\* return from Do
DoReturns(resp, e) ==
    /\ dpc' = "done"
    /\ doRet' = Returned(resp, e)

\* The context of the request is cancelled or runs out while Do is running.
DoCancel ==
    /\ dpc \in {"call", "attempt", "sleep"}
    /\ reqCtx = "live"
    /\ reqCtx' \in {"canceled", "deadline"}
    /\ UNCHANGED <<supVars, frameVars, readVars, lockVars, hsVars>>
    /\ UNCHANGED <<retry, req, attempts, attempt, lastErr, dpc, tried, delay, doRet>>

\* Do up to the loop.
DoCall ==
    /\ dpc = "call"
    /\ IF req.nil
       THEN /\ DoReturns(0, "transport: request is nil")
            /\ UNCHANGED <<attempts, attempt>>
       ELSE /\ attempts' = attemptsOf
            /\ attempt' = 1
            /\ dpc' = "attempt"
            /\ UNCHANGED doRet
    /\ UNCHANGED <<supVars, frameVars, readVars, lockVars, hsVars>>
    /\ UNCHANGED <<retry, req, reqCtx, lastErr, tried, delay>>

\* One turn of the loop, up to its return, or to its sleepWithContext.
DoAttempt ==
    /\ dpc = "attempt"
    /\ IF attempt > attempts
       THEN /\ DoReturns(0, IF lastErr # "" THEN lastErr
                            ELSE "transport: request failed after retries")
            /\ UNCHANGED <<lastErr, tried, delay>>
       ELSE \E e \in requestForAttempt(attempt) :
            IF e # ""
            THEN /\ DoReturns(0, e)
                 /\ UNCHANGED <<lastErr, tried, delay>>
            ELSE \E r \in RoundTrips :
                 /\ tried' = Append(tried, r)
                 /\ IF r.err # ""
                    THEN IF ~shouldRetryError(r) \/ attempt = attempts
                         THEN /\ DoReturns(0, r.err)
                              /\ UNCHANGED <<lastErr, delay>>
                         ELSE /\ lastErr' = r.err
                              /\ delay' \in nextBackoff(attempt, 0)
                              /\ dpc' = "sleep"
                              /\ UNCHANGED doRet
                    ELSE IF shouldRetryStatus(r.status) /\ attempt < attempts
                         THEN /\ delay' \in nextBackoff(attempt, r.retryAfter)
                              /\ dpc' = "sleep"
                              /\ UNCHANGED <<lastErr, doRet>>
                         ELSE /\ DoReturns(r.status, "")
                              /\ UNCHANGED <<lastErr, delay>>
    /\ UNCHANGED <<supVars, frameVars, readVars, lockVars, hsVars>>
    /\ UNCHANGED <<retry, req, reqCtx, attempts, attempt>>

\* sleepWithContext, and the continue after it. With the context done and
\* the timer fired, select takes either case.
DoSleep ==
    /\ dpc = "sleep"
    /\ \/ /\ attempt' = attempt + 1
          /\ dpc' = "attempt"
          /\ UNCHANGED doRet
       \/ /\ delay > 0
          /\ reqCtx # "live"
          /\ DoReturns(0, IF reqCtx = "canceled" THEN "context canceled"
                          ELSE "context deadline exceeded")
          /\ UNCHANGED attempt
    /\ UNCHANGED <<supVars, frameVars, readVars, lockVars, hsVars>>
    /\ UNCHANGED <<retry, req, reqCtx, attempts, lastErr, tried, delay>>

DoNext == DoCancel \/ DoCall \/ DoAttempt \/ DoSleep

DoSpec == DoInit /\ [][DoNext]_vars

\* ------------------------------------------------ websocketClientHandshake
webSocketHandshakeTimeout == 10

\* The last second of the clock.
Horizon == MaxStart + webSocketHandshakeTimeout + MaxSlack

\* websocketClientHandshake, the deadline it sets on the connection
handshakeDeadline(start, cd) ==
    IF cd.ok THEN cd.d ELSE start + webSocketHandshakeTimeout

HandshakeInit ==
    /\ SupIdle
    /\ FrameIdle
    /\ ReadIdle
    /\ LockIdle
    /\ DoIdle
    /\ hsStart \in 0 .. MaxStart
    /\ now = hsStart
    /\ ctxDeadline \in { NoTime } \cup { Time(t) : t \in 0 .. Horizon }
    /\ deadline = NoTime
    /\ hpc = "start"

\* conn.SetDeadline(deadline), which can fail.
HandshakeStart ==
    /\ hpc = "start"
    /\ \/ /\ deadline' = Time(handshakeDeadline(hsStart, ctxDeadline))
          /\ hpc' = "handshake"
       \/ /\ deadline' = deadline
          /\ hpc' = "failed"
    /\ UNCHANGED <<supVars, frameVars, readVars, lockVars, doVars>>
    /\ UNCHANGED <<now, hsStart, ctxDeadline>>

\* A second passes while the request is written or the response is read;
\* the net.Conn fails every read and write from its deadline on.
HandshakeTick ==
    /\ hpc = "handshake"
    /\ now < deadline.d
    /\ now < Horizon
    /\ now' = now + 1
    /\ UNCHANGED <<supVars, frameVars, readVars, lockVars, doVars>>
    /\ UNCHANGED <<hsStart, ctxDeadline, deadline, hpc>>

\* The handshake returns: the connection, if its reads and writes were
\* done before the deadline, or an error; the deferred
\* conn.SetDeadline(time.Time{}) clears the deadline.
HandshakeEnd ==
    /\ hpc = "handshake"
    /\ hpc' \in IF now < deadline.d THEN {"upgraded", "failed"} ELSE {"failed"}
    /\ deadline' = NoTime
    /\ UNCHANGED <<supVars, frameVars, readVars, lockVars, doVars>>
    /\ UNCHANGED <<now, hsStart, ctxDeadline>>

HandshakeNext == HandshakeStart \/ HandshakeTick \/ HandshakeEnd

HandshakeSpec == HandshakeInit /\ [][HandshakeNext]_vars

\* ================================================================ claims
Last(q) == q[Len(q)]

NonBlank(str) == \E i \in 1 .. Len(str) : str[i] \notin {" ", "\t"}

Done == pc = "done"

CtxDone == ctx \in {"canceled", "deadline"}

\* The step is one of the RunWithHandler goroutine.
Step == pc' # pc

\* The Acknowledgement of the envelope being processed, with and without a
\* payload key.
Ack(p) == [envelope_id |-> event.EnvelopeID, payload |-> p]

AckWritten == \E p \in BOOLEAN : writes' = Append(writes, Ack(p))

HandlerFailed == handled \in {"err", "resp+err"}

\* WriteJSON was called in this step, successfully or not.
WriteCalled == acked' \in {"written", "failed"}

\* C1 (as stated): for every envelope read, an Acknowledgement carrying its
\* envelope_id is handed to WriteJSON of the connection if and only if the
\* envelope_id is non-empty, and is on the connection when the call succeeds.
C1_AckIffNonEmpty ==
    [][(pc = "ack" /\ Step) =>
            /\ WriteCalled <=> event.EnvelopeID # <<>>
            /\ acked' = "written" <=> AckWritten]_vars

\* C1 (amended): for every envelope read, WriteJSON is called with an
\* Acknowledgement carrying its envelope_id if and only if the envelope_id
\* is not blank (non-empty after strings.TrimSpace); the Acknowledgement is
\* on the connection exactly when that call succeeds, and a failed call
\* makes processConnection return.  No other step writes.
C1_AckIffNonBlank ==
    [][/\ (pc = "ack" /\ Step) =>
            /\ WriteCalled <=> NonBlank(event.EnvelopeID)
            /\ acked' = "written" <=> AckWritten
            /\ acked' = "written" => pc' = "read"
            /\ acked' = "failed" => pc' = "close" /\ err' \in {ErrClosedPipe, ErrWrite}
       /\ ~(pc = "ack" /\ Step) => writes' \in {writes, <<>>}]_vars

C1_Witness ==
    /\ pc = "read"
    /\ acked = "written"
    /\ writes # <<>>
    /\ Last(writes).envelope_id = event.EnvelopeID

\* C2: an Acknowledgement has a payload key if and only if a handler was
\* supplied, it returned a non-nil response and no error for the envelope,
\* and the envelope's accepts_response_payload was true.
C2_PayloadKey ==
    (pc = "read" /\ acked = "written") =>
        (Last(writes).payload <=>
            (handler /\ handled = "resp" /\ event.AcceptsResponsePayload))

C2_Witness ==
    /\ pc = "read"
    /\ acked = "written"
    /\ handled = "resp"
    /\ ~event.AcceptsResponsePayload
    /\ ~Last(writes).payload

\* C3 (as stated): when the handler returns an error for an envelope with a
\* non-empty envelope_id, one Acknowledgement without payload is still
\* handed to WriteJSON, and once it is written the loop goes on to the next
\* read.
C3_ErrorStillAcked ==
    [][(pc = "ack" /\ Step /\ HandlerFailed /\ event.EnvelopeID # <<>>) =>
            /\ WriteCalled
            /\ acked' = "written" =>
                    (writes' = Append(writes, Ack(FALSE)) /\ pc' = "read")]_vars

\* C3 (amended): the return of the handler, error or not, leads to the
\* envelope_id check and ends neither the connection nor RunWithHandler;
\* when the handler returned an error for an envelope whose envelope_id is
\* not blank, WriteJSON is called once with an Acknowledgement without
\* payload, after which the loop goes on to the next read if the call
\* succeeded and processConnection returns the write error if it failed.
C3_ErrorStillAckAttempted ==
    [][/\ (pc = "handle" /\ Step) =>
            (pc' = "ack" /\ retErr' = retErr /\ conns' = conns /\ writes' = writes)
       /\ (pc = "ack" /\ Step /\ HandlerFailed /\ NonBlank(event.EnvelopeID)) =>
            \/ /\ acked' = "written"
               /\ writes' = Append(writes, Ack(FALSE))
               /\ pc' = "read"
            \/ /\ acked' = "failed"
               /\ err' \in {ErrClosedPipe, ErrWrite}
               /\ pc' = "close"]_vars

C3_Witness ==
    /\ pc = "read"
    /\ handled = "err"
    /\ acked = "written"
    /\ Last(writes) = [envelope_id |-> event.EnvelopeID, payload |-> FALSE]

\* C4: while an envelope with an empty envelope_id is processed nothing is
\* written on the connection, whatever the handler returns, and the loop
\* goes on to the next read.
C4_EmptyIdNoWrite ==
    [][(pc \in {"handle", "ack"} /\ event.EnvelopeID = <<>>) =>
            /\ writes' = writes
            /\ (pc = "ack" /\ Step) => (pc' = "read" /\ acked' = "none")]_vars

C4_Witness ==
    /\ pc = "read"
    /\ event.EnvelopeID = <<>>
    /\ handled = "resp"
    /\ acked = "none"
    /\ writes = <<>>

\* ReadJSON waits for the peer: nothing buffered, the net.Conn open.
BlockedInRead == pc = "read" /\ buffered = 0 /\ conns[cur].conn

Processing == {"read", "handle", "ack", "close", "after"}

NoCalls == cpCalls' = cpCalls /\ dialURLs' = dialURLs /\ waits' = waits

\* C5: once the context is done while ReadJSON is blocked, the connection
\* gets closed and RunWithHandler returns the context's error; on the way
\* it makes no control-plane call, no dial and no wait.
C5_CancelWhileReading ==
    /\ (CtxDone /\ BlockedInRead) ~>
            (Done /\ retErr = CtxErr(ctx) /\ conns # <<>> /\ ~conns[cur].conn)
    /\ [][(CtxDone /\ pc \in Processing) =>
            (pc' \in Processing \cup {"done"} /\ NoCalls)]_vars
    /\ [][Done => (pc' = pc /\ retErr' = retErr /\ NoCalls)]_vars

C5_Witness ==
    /\ Done
    /\ retErr = CtxErr(ctx)
    /\ IsCancellation(retErr)
    /\ conns # <<>>
    /\ err = ErrNetClosed
    /\ conns[cur].watcher = "closed"
    /\ conns[cur].closes = 1
    /\ Len(dialURLs) = 1

\* C6: once the context is done during the wait that follows a failed dial,
\* RunWithHandler returns the context's error, and makes no control-plane
\* call and no dial before it does.
C6_CancelWhileWaiting ==
    /\ (CtxDone /\ pc = "waitDial") ~> (Done /\ retErr = CtxErr(ctx))
    /\ [][(CtxDone /\ pc \in {"waitDial", "loopTop"}) =>
            /\ pc' \in {"waitDial", "loopTop", "done"}
            /\ cpCalls' = cpCalls
            /\ dialURLs' = dialURLs]_vars
    /\ [][Done => (pc' = pc /\ retErr' = retErr /\ NoCalls)]_vars

C6_Witness ==
    /\ Done
    /\ IsCancellation(retErr)
    /\ conns = <<>>
    /\ Len(dialURLs) >= 1
    /\ waits = Len(dialURLs)
    /\ cpCalls = Len(dialURLs)

DialFailed == pc = "dial" /\ Step /\ conns' = conns

\* C7: a failed dial does not end RunWithHandler: it leads to the reconnect
\* wait, which under a live context leads back to the top of the loop, to
\* a new control-plane call and, when that call yields a URL, to the next
\* dial; no error is returned on the way.
C7_DialFailureRetried ==
    [][/\ DialFailed => (pc' = "waitDial" /\ retErr' = NoErr)
       /\ (pc = "waitDial" /\ Step /\ ctx = "live") => (pc' = "loopTop" /\ retErr' = NoErr)
       /\ (pc = "loopTop" /\ Step /\ ctx = "live") => (pc' = "open" /\ retErr' = NoErr)
       /\ (pc = "open" /\ Step) =>
            /\ cpCalls' = cpCalls + 1
            /\ pc' = IF openConnection(reply').err = NoErr THEN "dial" ELSE "done"
       /\ (pc = "dial" /\ Step) => dialURLs' = Append(dialURLs, socketURL)]_vars

\* The handler is called for an envelope of the connection of the second
\* dial, the first dial having failed.
C7_Witness ==
    /\ pc = "handle"
    /\ Len(dialURLs) = 2
    /\ Len(conns) = 1
    /\ waits = 1
    /\ cpCalls = 2

\* The error carries vendor error code c: as the Code of a slack.Error, or
\* in the Body of a transport.APIError.
CarriesCode(e, c) ==
    \/ e.kind = "slack.Error" /\ e.code = c
    \/ e.kind = "transport.APIError" /\ e.body.form = "object" /\ e.body.error = c

Rejected == reply.doErr = NoErr /\ reply.body.form = "object" /\ reply.body.ok = "false"

\* RunWithHandler returned out of the control-plane call: every earlier
\* iteration made one call, one dial and one wait, and this one only the call.
ReturnedFromOpen ==
    /\ Done
    /\ cpCalls = Len(dialURLs) + 1
    /\ waits = Len(dialURLs)
    /\ socketURL = <<>>

\* C8: when the control plane answers ok=false, RunWithHandler returns an
\* error that carries the vendor error code, without a dial, a wait or
\* another control-plane call.
C8_RejectionFatal ==
    /\ [](Rejected => (ReturnedFromOpen /\ CarriesCode(retErr, reply.body.error)))
    /\ [][Done => (pc' = pc /\ retErr' = retErr /\ NoCalls)]_vars

C8_Witness ==
    /\ Done
    /\ Rejected
    /\ reply.status = 200
    /\ reply.body.error \in VendorCodes
    /\ retErr.kind = "slack.Error"
    /\ retErr.code = reply.body.error

\* C9: when transport.Do fails, RunWithHandler returns that very error,
\* without a dial, a wait or another control-plane call, in the first
\* iteration and in a later one.
C9_TransportErrorFatal ==
    /\ [](reply.doErr # NoErr => (ReturnedFromOpen /\ retErr = reply.doErr))
    /\ [][Done => (pc' = pc /\ retErr' = retErr /\ NoCalls)]_vars

C9_Witness ==
    /\ Done
    /\ retErr = ErrTransport
    /\ reply.doErr = ErrTransport
    /\ Len(dialURLs) >= 1

\* The configuration RunWithHandler rejects: a nil context, a client built
\* from a blank app token or from a base URL that does not parse or lacks
\* scheme or host, a client without token, base URL, transport or dialer.
BadOptions(o) ==
    \/ \A i \in 1 .. Len(o.appToken) : o.appToken[i] \in {" ", "\t"}
    \/ o.baseURL.parseErr
    \/ o.baseURL.scheme = ""
    \/ o.baseURL.host = ""

\* The clients NewSocketModeClient builds from such options.
BadClients == { NewSocketModeClient(o) : o \in { x \in Options : BadOptions(x) } }

StaticConfigInvalid ==
    \/ ctx = "nil"
    \/ client \in BadClients
    \/ ~NonBlank(client.appToken)
    \/ client.baseURL = NIL
    \/ ~client.transport
    \/ ~client.dialer

\* C10: with an invalid static configuration RunWithHandler returns an
\* error in its first step, before any control-plane call, dial or wait.
C10_InvalidConfigFatal ==
    StaticConfigInvalid =>
        /\ pc \in {"validate", "done"}
        /\ Done => retErr.kind = "config"
        /\ cpCalls = 0
        /\ dialURLs = <<>>
        /\ waits = 0
        /\ conns = <<>>

C10_Witness ==
    /\ Done
    /\ client.appToken = <<" ">>
    /\ client.baseURL # NIL
    /\ ctx = "live"
    /\ retErr = Err("config", "slack: app-level token is required")

\* The connections whose net.Conn has not been closed.
OpenConns == { i \in 1 .. Len(conns) : conns[i].conn }

\* C11: at every point at most one connection returned by Dial is not yet
\* closed, and it is the one being processed: while RunWithHandler waits,
\* looks up an endpoint or dials, and once it has returned, every
\* connection it dialed is closed.
C11_OneLiveConnection ==
    /\ Cardinality(OpenConns) <= 1
    /\ OpenConns # {} => (OpenConns = {cur} /\ pc \in {"process", "read", "handle", "ack", "close"})

\* RunWithHandler has returned after two connections, the first of them
\* closed by the loop and not by its watcher.
C11_Witness ==
    /\ Done
    /\ Len(conns) = 2
    /\ OpenConns = {}
    /\ conns[1].watcher = "stopped"
    /\ conns[1].closes = 1
    /\ conns[2].closes = 1

\* The numbers 1 .. n in order.
UpTo(n) == [i \in 1 .. n |-> i]

\* C12: every envelope read is handed to the handler exactly once and in
\* the order of the reads; a read happens only when no handler call is in
\* flight and the Acknowledgement of the previous envelope, if one was due,
\* has been written; the return of the handler leads to the envelope_id
\* check, never to a read.
C12_SequentialDispatch ==
    /\ [](handler => dispatched = UpTo(reads))
    /\ [](pc = "read" => /\ acked \in {"idle", "none", "written"}
                         /\ (acked = "none") => ~NonBlank(event.EnvelopeID))
    /\ [][/\ reads' # reads =>
                (pc = "read" /\ reads' = reads + 1 /\ pc' = IF handler THEN "handle" ELSE "ack")
          /\ (pc = "handle" /\ Step) => (pc' = "ack" /\ reads' = reads)
          /\ (pc = "ack" /\ Step) => (pc' \in {"read", "close"} /\ reads' = reads)]_vars

\* The second envelope of one connection is in the handler, the first one
\* handled and acknowledged.
C12_Witness ==
    /\ pc = "handle"
    /\ Len(conns) = 1
    /\ dispatched = <<1, 2>>
    /\ writes # <<>>

\* C13: a failed read makes processConnection return; the loop closes the
\* connection; then, under a live context, it goes to the reconnect wait,
\* back to the top of the loop and to a new control-plane call without
\* returning, and under a done context it returns the context's error
\* without waiting.
C13_ReadFailureReconnects ==
    [][/\ (pc = "read" /\ Step /\ reads' = reads) =>
            (pc' = "close" /\ err' \in ReadErrors \cup {ErrNetClosed} /\ retErr' = NoErr)
       /\ (pc = "close" /\ Step) =>
            (pc' = "after" /\ ~conns'[cur].conn /\ retErr' = NoErr /\ err' = err)
       /\ (pc = "after" /\ Step /\ err \in ReadErrors \cup {ErrNetClosed}) =>
            IF ctx = "live"
            THEN pc' = "waitConn" /\ retErr' = NoErr /\ NoCalls
            ELSE pc' = "done" /\ retErr' = CtxErr(ctx) /\ NoCalls
       /\ (pc = "waitConn" /\ Step /\ ctx = "live") =>
            (pc' = "loopTop" /\ retErr' = NoErr /\ waits' = waits + 1)
       /\ (pc = "waitConn" /\ Step /\ pc' = "done") => retErr' = CtxErr(ctx)]_vars

\* The loop is about to dial again after a connection on which no envelope
\* was read: its read failed under a live context.
C13_Witness ==
    /\ pc = "dial"
    /\ reads = 0
    /\ Len(conns) = 1
    /\ ~conns[1].conn
    /\ waits = 1
    /\ cpCalls = 2
    /\ retErr = NoErr

\* The last control-plane call did not yield an endpoint URL.
ControlPlaneFailed ==
    /\ reply # NoReply
    /\ \/ reply.doErr # NoErr
       \/ reply.status < 200
       \/ reply.status >= 300
       \/ reply.body.form # "object"
       \/ reply.body.ok = "false"
       \/ ~NonBlank(reply.body.url)

\* C16: RunWithHandler never returns nil, and when it has returned, the
\* validation failed before any call, or the control-plane call of the
\* running iteration failed, or the context is done and its error is what
\* is returned; under a live context only the validation and the
\* control-plane call return, whatever the number of failed dials and of
\* lost connections.
C16_ReturnsOnlyWhenFatal ==
    /\ [](Done =>
            /\ retErr # NoErr
            /\ \/ retErr.kind = "config" /\ cpCalls = 0
               \/ ReturnedFromOpen /\ ControlPlaneFailed
               \/ CtxDone /\ retErr = CtxErr(ctx))
    /\ [][(ctx' = "live" /\ pc \notin {"validate", "open", "done"}) => pc' # "done"]_vars

\* Two dials in a row have failed and RunWithHandler is still running.
C16_Witness ==
    /\ pc = "loopTop"
    /\ Len(dialURLs) = 2
    /\ conns = <<>>
    /\ waits = 2
    /\ ctx = "live"
    /\ retErr = NoErr

\* C19: for every opcode and every payload of 0, 1, 125, 126, 65535 or
\* 65536 bytes, and every mask, readFrame on the bytes of
\* buildClientFrame(op, P) returns opcode op, FIN set, payload P and no
\* error, having consumed the bytes of the frame and none of what follows.
C19_FrameRoundTrip ==
    fpc = "done" =>
        /\ decoded.err = ""
        /\ decoded.opcode = call.opcode
        /\ decoded.fin
        /\ decoded.len = call.len
        /\ decoded.same
        /\ decoded.n = frame.len
        /\ decoded.rest = reader

C19_Witness ==
    /\ fpc = "done"
    /\ call.len = 65536
    /\ call.opcode = wsOpcodeBinary
    /\ call.mask # <<0, 0, 0, 0>>
    /\ decoded.same
    /\ decoded.len = 65536
    /\ frame.len = 65536 + 14
    /\ frame.head[2] = 255
    /\ decoded.rest = <<129, 1>>

\* The reader consumes the frame at the head of those in flight, and it is
\* one of opcode op.
Consumes(op) ==
    /\ inflight # <<>>
    /\ Head(inflight).opcode = op
    /\ inflight' = Tail(inflight)

\* b is one masked frame with FIN set, opcode pong and payload x.
IsPong(b, x) ==
    /\ Len(b) = 6 + Len(x)
    /\ b[1] = 138
    /\ b[2] = 128 + Len(x)
    /\ \A i \in 1 .. Len(x) : Xor(b[6 + i], b[3 + ((i - 1) % 4)]) = x[i]

\* What this step has written to the net.Conn.
Written == SubSeq(wire', Len(wire) + 1, Len(wire'))

Appended == Len(wire') >= Len(wire) /\ SubSeq(wire', 1, Len(wire)) = wire

NothingReturned ==
    /\ rpc' # "returned"
    /\ buffer' = buffer
    /\ expectContinuation' = expectContinuation

\* C17: a ping with payload X makes readMessage call writeFrame once, with
\* a pong carrying exactly X, and is never returned as a message; the pong
\* is then the one frame written and reading goes on with the next frame,
\* unless the write fails (the connection closed, the socket write
\* failing), and then nothing is written and readMessage returns the error
\* of the write.  A pong is dropped without a write and reading goes on;
\* no other frame makes readMessage write.
C17_PingAnswered ==
    [][/\ Consumes(wsOpcodePing) =>
            /\ NothingReturned
            /\ \/ /\ Appended
                  /\ IsPong(Written, Head(inflight).payload)
                  /\ netConn
                  /\ rpc' = "read"
               \/ /\ wire' = wire
                  /\ rpc' = "failed"
                  /\ readErr' = IF netConn THEN "slack: write websocket frame"
                                 ELSE "io: read/write on closed pipe"
       /\ Consumes(wsOpcodePong) => (wire' = wire /\ NothingReturned /\ rpc' = "read")
       /\ (rpc' # rpc \/ (inflight # <<>> /\ inflight' = Tail(inflight))) =>
            (Consumes(wsOpcodePing) \/ wire' = wire)]_vars

\* A ping that came between the frames of a message has been answered.
C17_Witness ==
    /\ rpc = "read"
    /\ expectContinuation
    /\ buffer # <<>>
    /\ IsPong(wire, <<7>>)
    /\ wire[3] # 0

\* C18: the message readMessage returns is the concatenation, in the order
\* of arrival, of the payloads of the frames the peer split its message
\* into, whatever their number (1 to MaxFragments) and the place of the
\* cuts, and whatever pings and pongs came between them.
C18_Reassembly ==
    rpc = "returned" =>
        /\ expected.n \in 1 .. MaxFragments
        /\ message = expected.bytes
        /\ message = [i \in 1 .. Len(message) |-> 64 + i]

\* A message of five frames, empty, one-byte and two-byte ones, is returned.
C18_Witness ==
    /\ rpc = "returned"
    /\ expected.n = 5
    /\ message = <<65, 66, 67, 68, 69, 70>>

\* w is a concatenation of complete frames, each masked, with FIN set, and
\* one of the frames the callers asked for.
RECURSIVE CompleteFrames(_)
CompleteFrames(w) ==
    \/ w = <<>>
    \/ LET f == readFrame(w)
       IN  /\ f.err = ""
           /\ f.fin
           /\ w[2] >= 128
           /\ \E c \in WriteCalls : c.opcode = f.opcode /\ c.payload = f.payload
           /\ CompleteFrames(SubSeq(w, f.n + 1, Len(w)))

\* The goroutines between Lock and Unlock.
Locked == { t \in Goroutines : tasks[t].pc \in {"wCheck", "write", "cCheck", "closing"} }

\* The goroutines inside c.conn.Write.
Writing == { t \in Goroutines : tasks[t].pc = "write" /\ tasks[t].at > 0 }

\* C14: whatever goroutines write concurrently on one websocketConn, at
\* most one is between Lock and Unlock of writeMu and it is the holder, the
\* bytes written come from the holder only, and they are always a
\* concatenation of complete well-formed frames, followed, while a Write is
\* under way, by the part of the holder's frame written so far.
C14_WritesDoNotInterleave ==
    /\ Cardinality(Locked) <= 1
    /\ Locked \subseteq {writeMu}
    /\ \A t \in Writing :
            /\ tasks[t].at <= Len(wire)
            /\ SubSeq(wire, Len(wire) - tasks[t].at + 1, Len(wire))
                    = SubSeq(tasks[t].frame, 1, tasks[t].at)
            /\ CompleteFrames(SubSeq(wire, 1, Len(wire) - tasks[t].at))
    /\ Writing = {} => CompleteFrames(wire)

\* One goroutine is in the middle of its Write, after a complete frame of
\* another, while the third waits for the lock to write.
C14_Witness ==
    /\ Writing # {}
    /\ \E t \in Writing : Len(wire) > tasks[t].at
    /\ \E t \in Goroutines : tasks[t].pc = "wLock"
    /\ \E t \in Goroutines : tasks[t].ret = "nil" /\ tasks[t].n = 0

\* C15: the net.Conn is closed at most once, and exactly once as soon as a
\* Close call has returned, whatever the number of Close calls and the
\* goroutines they come from; a Close call that finds the connection
\* closed returns nil and changes nothing.
C15_CloseIdempotent ==
    /\ [](/\ sockCloses <= 1
          /\ sockCloses = 1 => ~netConn
          /\ (\E t \in Goroutines : tasks[t].n > 0) => sockCloses = 1)
    /\ [][\A t \in Goroutines :
            (tasks[t].pc = "cCheck" /\ ~netConn /\ tasks'[t].pc # "cCheck") =>
                /\ tasks'[t] = Idle("nil", tasks[t].n + 1)
                /\ sockCloses' = sockCloses
                /\ netConn' = netConn
                /\ wire' = wire]_vars

\* Two goroutines have called Close three times between them, and a write
\* that came after was refused.
C15_Witness ==
    /\ sockCloses = 1
    /\ \E t, u \in Goroutines :
        /\ t # u
        /\ tasks[t].n = 2
        /\ tasks[t].ret = "nil"
        /\ tasks[u].n = 1
        /\ tasks[u].pc = "idle"
    /\ \A t \in Goroutines : tasks[t].pc = "idle"

\* c.httpClient.Do has just given a response with status 429 or 5xx while
\* attempts remain.
RetryableResponse ==
    /\ dpc = "attempt"
    /\ tried' # tried
    /\ Last(tried').err = ""
    /\ Last(tried').status = 429 \/ Last(tried').status \in 500 .. 599
    /\ attempt < attempts

\* C20: when an attempt of Do gets a response whose status is 429 or any
\* status from 500 to 599 and attempts remain, Do does not return that
\* response: it goes on to the backoff before the next attempt.
C20_RetriesAny5xx ==
    [][RetryableResponse => (dpc' = "sleep" /\ doRet' = doRet)]_vars

\* The request can be sent again: it has no body, or a GetBody.
Replayable == ~req.Body \/ req.GetBody

\* The attempts Do may make for the request.
Allowed == IF Replayable THEN retry.MaxAttempts ELSE 1

\* The statuses Do asks a further attempt for.
Retryable(r) == r.err = "" /\ r.status \in {429, 500, 502, 503, 504}

\* What c.httpClient.Do gave up to now were responses, no errors.
OnlyResponses == \A i \in 1 .. Len(tried) : tried[i].err = ""

\* C21: Do calls c.httpClient.Do at most MaxAttempts times (MaxAttempts as
\* New normalised it), and at most once for a request whose body cannot be
\* replayed. When every call gave a response, all but the last had a
\* retryable status; the call that gives a response without a retryable
\* status, or the response of the last allowed attempt whatever its status,
\* ends Do, which returns that response and no error.
C21_AttemptsBounded ==
    /\ [](/\ Len(tried) <= Allowed
          /\ Allowed <= retry.MaxAttempts
          /\ dpc \in {"attempt", "sleep"} => Len(tried) < Allowed
          /\ dpc \in {"sleep", "done"} /\ OnlyResponses =>
                \A i \in 1 .. Len(tried) - 1 : Retryable(tried[i])
          /\ dpc = "done" /\ OnlyResponses /\ tried # <<>> /\ doRet.err = "" =>
                /\ doRet = Returned(Last(tried).status, "")
                /\ Retryable(Last(tried)) => Len(tried) = Allowed)
    /\ [][(tried' # tried /\ Last(tried').err = ""
             /\ (~Retryable(Last(tried')) \/ Len(tried') = Allowed)) =>
                (dpc' = "done" /\ doRet' = Returned(Last(tried').status, ""))]_vars

\* Do has returned the response of its third and last attempt, a 503 after
\* a 429 and a 502, for a request with a body that can be replayed.
C21_Witness ==
    /\ dpc = "done"
    /\ req.Body
    /\ Len(tried) = 3
    /\ retry.MaxAttempts = 3
    /\ tried[1].status = 429
    /\ tried[2].status = 502
    /\ doRet = Returned(503, "")

\* Between two iterations of the loop of RunWithHandler: at its top, in a
\* reconnect wait, after conn.Close().
Boundary == {"loopTop", "waitDial", "waitConn", "after"}

\* C22: once the context is done and RunWithHandler is between two
\* iterations, it makes no control-plane call and no dial any more and
\* leaves the boundary only by returning the context's error: the check at
\* the top of the loop and the one after a connection return it at once,
\* the reconnect wait returns it or leads to the top of the loop; and it
\* does not stay between two iterations for ever.
C22_NoIterationAfterCancel ==
    /\ [][(CtxDone /\ pc \in Boundary) =>
            /\ pc' \in Boundary \cup {"done"}
            /\ cpCalls' = cpCalls
            /\ dialURLs' = dialURLs
            /\ conns' = conns \/ pc' = pc
            /\ pc' = "done" => (retErr' = CtxErr(ctx) /\ IsCancellation(retErr'))]_vars
    /\ [][(CtxDone /\ pc \in {"loopTop", "after"} /\ Step) => pc' = "done"]_vars
    /\ [][(CtxDone /\ pc \in {"waitDial", "waitConn"} /\ Step) =>
            pc' \in {"loopTop", "done"}]_vars
    /\ []<>~(CtxDone /\ pc \in Boundary)

\* The context was done when a connection that ended with a read error had
\* been closed, and RunWithHandler returned the context's error without a
\* wait.
C22_Witness ==
    /\ Done
    /\ IsCancellation(retErr)
    /\ conns # <<>>
    /\ conns[cur].closes = 1
    /\ conns[cur].watcher = "stopped"
    /\ err \in ReadErrors
    /\ waits = 0
    /\ cpCalls = 1

\* The watcher of connection i has ended, by either case of its select.
Ended(i) == conns[i].watcher \in {"closed", "stopped"}

\* The watcher of connection i is running with a case of its select ready.
Due(i) == conns[i].watcher = "running" /\ (conns[i].stop = "closed" \/ CtxDone)

\* C23: processConnection starts one watcher for its connection and none
\* is started otherwise; a watcher that has ended stays ended; the watcher
\* that closes a connection closes the one it was started for, under a
\* context that is done, and touches no other; the stop channel of a
\* connection is closed once its processConnection has returned, so that of
\* every replaced connection is; and a running watcher whose stop channel
\* is closed or whose context is done stays so until it has ended, and
\* does end: no such watcher is left running for ever.
C23_WatcherScoped ==
    /\ [](\A i \in 1 .. Len(conns) :
            /\ (i < cur \/ pc \in {"close", "after", "waitConn"}) => conns[i].stop = "closed"
            /\ (i = cur /\ pc \in {"read", "handle", "ack"}) =>
                    (conns[i].stop = "open" /\ conns[i].watcher \in {"running", "closed"})
            /\ conns[i].watcher = "none" <=> conns[i].stop = "none"
            /\ conns[i].watcher = "stopped" => conns[i].stop = "closed")
    /\ [][\A i \in 1 .. Len(conns) :
            /\ (conns'[i].watcher = "running" /\ conns[i].watcher # "running") =>
                    (conns[i].watcher = "none" /\ pc = "process" /\ i = cur)
            /\ (pc = "process" /\ Step /\ i = cur) => conns'[i].watcher = "running"
            /\ Ended(i) => conns'[i].watcher = conns[i].watcher
            /\ (conns[i].watcher = "running" /\ conns'[i].watcher = "closed") =>
                    /\ CtxDone
                    /\ ~conns'[i].conn
                    /\ pc' = pc
                    /\ Len(conns') = Len(conns)
                    /\ \A j \in 1 .. Len(conns) : j # i => conns'[j] = conns[j]]_vars
    /\ [][\A i \in 1 .. Len(conns) : Due(i) => (Due(i)' \/ Ended(i)')]_vars
    /\ []<>(\A i \in 1 .. Len(conns) : ~Due(i))

\* The watcher of a replaced connection ended on its stop channel, the one
\* of the connection that replaced it by closing that connection.
C23_Witness ==
    /\ Len(conns) = 2
    /\ conns[1].watcher = "stopped"
    /\ conns[1].closes = 1
    /\ conns[2].watcher = "closed"
    /\ conns[2].closes = 1
    /\ Done

\* C24: between two control-plane calls there is exactly one reconnect
\* wait, entered after a failed dial and after a connection that ended
\* under a live context. The delay of the client is not negative and never
\* changes, and every timer of a wait is made with it. A wait makes no
\* control-plane call and no dial; under a live context it leads to the top
\* of the loop, under a done one it returns the context's error or, with a
\* positive delay, may lead to the top of the loop; with delay 0 no timer
\* is made and a done context always gives its error.
C24_FixedReconnectDelay ==
    /\ [](/\ client.reconnectDelay >= 0
          /\ \A i \in 1 .. Len(timers) : timers[i] = client.reconnectDelay
          /\ Len(timers) = IF client.reconnectDelay > 0 THEN waits ELSE 0
          /\ waits <= cpCalls
          /\ cpCalls <= waits + 1
          /\ pc \in {"loopTop", "open"} => waits = cpCalls
          /\ pc \in {"waitDial", "waitConn"} => cpCalls = waits + 1)
    /\ [][/\ client' = client
          /\ (pc = "dial" /\ Step /\ conns' = conns) => pc' = "waitDial"
          /\ (pc = "after" /\ Step /\ ctx = "live") => pc' = "waitConn"
          /\ (pc \in {"waitDial", "waitConn"} /\ Step) =>
                /\ waits' = waits + 1
                /\ cpCalls' = cpCalls
                /\ dialURLs' = dialURLs
                /\ \/ pc' = "loopTop" /\ retErr' = NoErr
                   \/ pc' = "done" /\ CtxDone /\ retErr' = CtxErr(ctx)
                /\ ctx = "live" => pc' = "loopTop"
                /\ (client.reconnectDelay = 0 /\ CtxDone) => pc' = "done"
                /\ timers' = IF client.reconnectDelay = 0 THEN timers
                             ELSE Append(timers, client.reconnectDelay)
          /\ (pc = "loopTop" /\ Step /\ ctx = "live") => pc' = "open"]_vars

\* A client with the default delay has waited that delay twice,
\* after a failed dial and after a connection that ended, and is about to
\* make its third control-plane call.
C24_Witness ==
    /\ timers = <<defaultSocketModeReconnectDelay, defaultSocketModeReconnectDelay>>
    /\ pc = "open"
    /\ Len(conns) = 1
    /\ Len(dialURLs) = 2
    /\ cpCalls = 2

\* readMessage takes the next frame of the peer, of one of the opcodes ops.
Takes(ops) ==
    /\ inflight # <<>>
    /\ inflight' = Tail(inflight)
    /\ Head(inflight).opcode \in ops

\* readMessage returns the error e and no message.
FailsWith(e) == rpc' = "failed" /\ readErr' = e /\ message' = <<>>

\* C25: a continuation frame read while no fragmented message is open, and
\* a text or binary frame read while one is open, make readMessage return
\* its protocol error and no message. A fragmented message is opened only
\* by a non-final text or binary frame and stays open until its final
\* continuation frame, which is the only kind of continuation frame that
\* returns a message.
C25_FragmentOrder ==
    [][/\ (Takes({wsOpcodeContinuation}) /\ ~expectContinuation) =>
            FailsWith("slack: unexpected websocket continuation frame")
       /\ (Takes({wsOpcodeText, wsOpcodeBinary}) /\ expectContinuation) =>
            FailsWith("slack: unexpected websocket data frame")
       /\ (Takes({wsOpcodeContinuation}) /\ rpc' # "failed") => expectContinuation
       /\ (~expectContinuation /\ expectContinuation') =>
            (Takes({wsOpcodeText, wsOpcodeBinary}) /\ ~Head(inflight).fin)
       /\ (expectContinuation /\ ~expectContinuation') =>
            (Takes({wsOpcodeContinuation}) /\ Head(inflight).fin /\ rpc' = "returned")
       /\ (expectContinuation /\ Takes({wsOpcodeContinuation}) /\ ~Head(inflight).fin) =>
            (rpc' = "read" /\ expectContinuation')
       /\ rpc = "failed" => rpc' = "failed"]_vars

\* After a whole message and the first frame of a fragmented one, a text
\* frame made readMessage fail.
C25_Witness ==
    /\ rpc = "failed"
    /\ readErr = "slack: unexpected websocket data frame"
    /\ expectContinuation
    /\ buffer # <<>>
    /\ message = <<>>

\* C26: the payload of every frame that buildClientFrame returns
\* and of every frame that readFrame returns is at most
\* maxWebSocketFrameSize bytes long.
C26_FrameSizeBounded ==
    /\ fpc \in {"read", "done"} => frame.len - Len(frame.head) <= 33554432
    /\ (fpc = "done" /\ decoded.err = "") => decoded.len <= 33554432

\* buildClientFrame has returned a frame for a payload one byte over the
\* maximum, and readFrame has refused the masked frame of the peer that
\* declares that length, leaving its mask and its first bytes unread.
C26_Witness ==
    /\ fpc = "done"
    /\ call.len = maxWebSocketFrameSize + 1
    /\ frame.len = call.len + 14
    /\ decoded.err = "slack: websocket frame too large"
    /\ reader[7] = 2
    /\ reader[10] = 1
    /\ reader[2] = 255
    /\ decoded.rest = <<9, 8, 7, 6, 1, 2, 3>>

\* C27: the deadline of the handshake is the earlier of its start
\* plus 10 s and the deadline of the context, and the handshake never runs
\* later than 10 s after its start.
C27_DeadlineIsEarlier ==
    hpc = "handshake" =>
        /\ deadline = Time(IF ctxDeadline.ok /\ ctxDeadline.d < hsStart + 10
                           THEN ctxDeadline.d ELSE hsStart + 10)
        /\ now <= hsStart + 10

\* A handshake under a context whose deadline lies 13 s after its start
\* has succeeded 12 s after its start.
C27_Witness ==
    /\ hpc = "upgraded"
    /\ ctxDeadline = Time(hsStart + 13)
    /\ now = hsStart + 12

\* C28: a call of readMessage that starts once Close has set c.conn to nil
\* and closed the net.Conn does not return the payload of its first frame
\* as a message: ReadJSON delivers nothing from the closed connection.
C28_NoMessageAfterClose ==
    [][(~netConn /\ rpc = "returned" /\ inflight # <<>> /\ inflight' = Tail(inflight)) =>
            ~(rpc' = "returned" /\ message' # <<>>)]_vars

\* C29: a ping or a pong read while a fragmented message is open leaves
\* the fragments read so far and the open message as they are and returns
\* nothing; the ping is answered by one pong with its payload, the pong by
\* no write, and the call goes on with the next frame, unless the write of
\* the pong fails and the call returns that error.  The final continuation
\* frame then returns the fragments read so far followed by its payload,
\* which is the message the peer split, whatever pings and pongs came
\* between its frames.
C29_ControlFramesKeepReassembly ==
    [][/\ (expectContinuation /\ Takes({wsOpcodePing, wsOpcodePong})) =>
            /\ buffer' = buffer
            /\ expectContinuation'
            /\ message' = <<>>
            /\ rpc' \in {"read", "failed"}
            /\ (rpc' = "read" /\ Head(inflight).opcode = wsOpcodePing) =>
                    (Appended /\ IsPong(Written, Head(inflight).payload))
            /\ (rpc' = "read" /\ Head(inflight).opcode = wsOpcodePong) => wire' = wire
            /\ rpc' = "failed" =>
                    /\ Head(inflight).opcode = wsOpcodePing
                    /\ wire' = wire
                    /\ readErr' \in {"slack: write websocket frame",
                                     "io: read/write on closed pipe"}
       /\ (expectContinuation /\ rpc' = "returned") =>
            /\ Takes({wsOpcodeContinuation})
            /\ message' = buffer \o Head(inflight).payload
            /\ message' = expected'.bytes
            /\ expected'.n >= 2]_vars

\* A message of three frames is returned, a ping read and answered just
\* before its last frame.
C29_Witness ==
    /\ rpc = "returned"
    /\ expected.n = 3
    /\ message = <<65, 66, 67, 68>>
    /\ IsPong(wire, <<7>>)
    /\ inflight = <<>>

\* The control-plane call made last has not been followed by its dial: it
\* has just succeeded, or it failed and RunWithHandler returned its error.
CallPending ==
    \/ pc = "dial"
    \/ pc = "done" /\ reply # NoReply /\ openConnection(reply).err # NoErr

\* C30: every dial goes to the URL returned by the control-plane call of
\* its own iteration, which succeeded and is the call made last, with no
\* other call or dial between the two; the i-th dial uses the URL of the
\* i-th call, so no URL is dialled twice.  The calls made are as many as
\* the dials, and one more while the call made last has not been followed
\* by its dial: between that call and its dial, and after it failed.
C30_FreshURLPerDial ==
    /\ [](/\ cpCalls = Len(dialURLs) + (IF CallPending THEN 1 ELSE 0)
          /\ \A i \in 1 .. Len(dialURLs) : dialURLs[i] = FreshURL(i)
          /\ \A i, j \in 1 .. Len(dialURLs) : (dialURLs[i] = dialURLs[j]) => (i = j)
          /\ (pc = "dial") =>
                /\ openConnection(reply).err = NoErr
                /\ socketURL = openConnection(reply).url
                /\ socketURL = FreshURL(cpCalls))
    /\ [][(dialURLs' # dialURLs =>
                /\ pc = "dial"
                /\ dialURLs' = Append(dialURLs, socketURL))
           /\ (cpCalls' # cpCalls =>
                /\ pc = "open"
                /\ cpCalls' = cpCalls + 1
                /\ cpCalls = Len(dialURLs)
                /\ pc' \in {"dial", "done"})
           /\ ((pc = "dial" /\ pc' # "dial") => dialURLs' # dialURLs)]_vars

\* After a dial that failed, a second control-plane call was made and its
\* URL dialled; a third call failed.
C30_Witness ==
    /\ pc = "done"
    /\ cpCalls = 3
    /\ dialURLs = <<FreshURL(1), FreshURL(2)>>
    /\ Len(conns) = 1
    /\ CallPending
====
